---- MODULE Spec2Model ----
(***************************************************************************)
(* The Answer Library (semantic answer cache) of IntelligentSPM, its       *)
(* feedback route and the stores they share, as a state machine.           *)
(*                                                                         *)
(* Every database statement the code awaits is one atomic step; a request  *)
(* is a sequence of such steps, and requests interleave between them.      *)
(***************************************************************************)
EXTENDS Integers, Sequences, FiniteSets, Bags, TLC

(***************************************************************************)
(* Exact arithmetic on natural numbers too large for a machine integer:    *)
(* a number is the sequence of its base-LimbBase digits, lowest first.     *)
(* It serves the Wilson score below, whose comparison needs squares of     *)
(* numbers around 10^8.                                                    *)
(***************************************************************************)
LimbBase == 1000

RECURSIVE BigCarry(_, _)
BigCarry(s, c) ==
  IF s = <<>>
    THEN IF c = 0 THEN <<>> ELSE <<c % LimbBase>> \o BigCarry(<<>>, c \div LimbBase)
    ELSE <<(Head(s) + c) % LimbBase>> \o BigCarry(Tail(s), (Head(s) + c) \div LimbBase)

BigOf(n) == BigCarry(<<>>, n)

RECURSIVE BigAddRaw(_, _)
BigAddRaw(a, b) ==
  IF a = <<>> THEN b
  ELSE IF b = <<>> THEN a
  ELSE <<Head(a) + Head(b)>> \o BigAddRaw(Tail(a), Tail(b))

BigAdd(a, b) == BigCarry(BigAddRaw(a, b), 0)

\* a times a single limb k (0 <= k < LimbBase)
BigScale(a, k) == BigCarry([i \in 1..Len(a) |-> a[i] * k], 0)

RECURSIVE BigMul(_, _)
BigMul(a, b) ==
  IF b = <<>> THEN <<>>
  ELSE BigAdd(BigScale(a, Head(b)),
              LET rest == BigMul(a, Tail(b))
              IN  IF rest = <<>> THEN <<>> ELSE <<0>> \o rest)

RECURSIVE BigTrim(_)
BigTrim(a) ==
  IF a # <<>> /\ a[Len(a)] = 0 THEN BigTrim(SubSeq(a, 1, Len(a) - 1)) ELSE a

RECURSIVE BigGEq(_, _)
\* a >= b, both trimmed
BigGEq(a, b) ==
  IF Len(a) # Len(b) THEN Len(a) > Len(b)
  ELSE IF a = <<>> THEN TRUE
  ELSE IF a[Len(a)] # b[Len(b)] THEN a[Len(a)] > b[Len(b)]
  ELSE BigGEq(SubSeq(a, 1, Len(a) - 1), SubSeq(b, 1, Len(b) - 1))

BigGE(a, b) == BigGEq(BigTrim(a), BigTrim(b))

(***************************************************************************)
(* calculateConfidence: the Wilson score lower bound, in units of          *)
(* 1/ConfScale, rounded down.  With z = 1.96 = 49/25 and n = up + down     *)
(* the code's (center - spread) / denominator equals                       *)
(*   (2 up + z^2 - z sqrt(4 up down / n + z^2)) / (2 (n + z^2)),           *)
(* so score >= k / ConfScale exactly when A >= 0 and                       *)
(*   n A^2 >= z^2 (4 up down + n z^2),   A = 2 up + z^2 - 2 k (n + z^2)/ConfScale *)
(* and all of it is scaled by 625 ConfScale to stay in the integers.       *)
(***************************************************************************)
ConfScale == 10000
ZNum == 49
ZDen == 25

WilsonLhs(up, down, k) ==
  2 * up * ZDen * ZDen * ConfScale + ZNum * ZNum * ConfScale
    - 2 * k * ((up + down) * ZDen * ZDen + ZNum * ZNum)

\* score(up, down) >= k / ConfScale, for up + down > 0
WilsonAtLeast(up, down, k) ==
  LET A == WilsonLhs(up, down, k)
      n == up + down
  IN  /\ A >= 0
      /\ BigGE(BigMul(BigOf(n), BigMul(BigOf(A), BigOf(A))),
               BigMul(BigMul(BigOf(ZNum * ZNum), BigMul(BigOf(ConfScale), BigOf(ConfScale))),
                      BigOf(4 * up * down * ZDen * ZDen + n * ZNum * ZNum)))

RECURSIVE WilsonSearch(_, _, _, _)
\* the largest k in lo..hi with WilsonAtLeast(up, down, k), knowing it holds at lo
WilsonSearch(up, down, lo, hi) ==
  IF lo = hi THEN lo
  ELSE LET mid == (lo + hi + 1) \div 2
       IN  IF WilsonAtLeast(up, down, mid)
             THEN WilsonSearch(up, down, mid, hi)
             ELSE WilsonSearch(up, down, lo, mid - 1)

WilsonScore(thumbsUp, thumbsDown) ==
  IF thumbsUp + thumbsDown = 0 THEN ConfScale
  ELSE WilsonSearch(thumbsUp, thumbsDown, 0, ConfScale)

(***************************************************************************)
(* calculateConfidence as the machine computes it.  A JavaScript number is *)
(* an IEEE 754 double: zero, or s * m * 2^e with s the sign, and           *)
(* 2^52 <= m < 2^53.  Every operation returns the double nearest to the    *)
(* exact result, ties going to the even m.  The exact results are          *)
(* computed on the naturals above.                                          *)
(***************************************************************************)
RECURSIVE BigBorrow(_, _, _)
\* a - b - c for a >= b + c
BigBorrow(a, b, c) ==
  IF a = <<>> THEN <<>>
  ELSE LET d == Head(a) - (IF b = <<>> THEN 0 ELSE Head(b)) - c
           rest == IF b = <<>> THEN <<>> ELSE Tail(b)
       IN  IF d < 0 THEN <<d + LimbBase>> \o BigBorrow(Tail(a), rest, 1)
                    ELSE <<d>> \o BigBorrow(Tail(a), rest, 0)

BigSub(a, b) == BigTrim(BigBorrow(a, b, 0))

RECURSIVE BigHalfRaw(_)
BigHalfRaw(a) ==
  IF a = <<>> THEN <<>>
  ELSE <<(Head(a) + (IF Len(a) > 1 THEN (a[2] % 2) * LimbBase ELSE 0)) \div 2>>
         \o BigHalfRaw(Tail(a))

\* a divided by 2, rounded down
BigHalf(a) == BigTrim(BigHalfRaw(a))

BigOdd(a) == a # <<>> /\ a[1] % 2 = 1

RECURSIVE BigShl(_, _)
\* a * 2^k
BigShl(a, k) ==
  IF k = 0 THEN a
  ELSE IF k >= 9 THEN BigShl(BigScale(a, 512), k - 9)
  ELSE BigShl(BigScale(a, 2), k - 1)

Two52 == BigShl(<<1>>, 52)
Two53 == BigShl(<<1>>, 53)
Two54 == BigShl(<<1>>, 54)

DoubleZero == [s |-> 0, m |-> <<>>, e |-> 0]

\* the double nearest to (q + f) * 2^x, for 2^53 <= q < 2^54 and a fraction
\* 0 <= f < 1 that is non-zero exactly when sticky
RoundNearestEven(s, q, sticky, x) ==
  LET half == BigHalf(q)
      up == BigOdd(q) /\ (sticky \/ BigOdd(half))
      m == IF up THEN BigAdd(half, <<1>>) ELSE half
  IN  IF m = Two53 THEN [s |-> s, m |-> Two52, e |-> x + 2]
                   ELSE [s |-> s, m |-> m, e |-> x + 1]

RECURSIVE Bracketed(_)
\* n / d = (n' / d') * 2^j with d' <= n' < 2 d': nine doublings at a time
\* while they do not overshoot, then one at a time
Bracketed(f) ==
  IF BigGE(f.n, BigScale(f.d, 2))
    THEN IF BigGE(f.n, BigScale(f.d, 512))
           THEN Bracketed([n |-> f.n, d |-> BigScale(f.d, 512), j |-> f.j + 9])
           ELSE Bracketed([n |-> f.n, d |-> BigScale(f.d, 2), j |-> f.j + 1])
  ELSE IF ~BigGE(f.n, f.d)
    THEN IF ~BigGE(BigScale(f.n, 512), f.d)
           THEN Bracketed([n |-> BigScale(f.n, 512), d |-> f.d, j |-> f.j - 9])
           ELSE Bracketed([n |-> BigScale(f.n, 2), d |-> f.d, j |-> f.j - 1])
  ELSE f

\* one more bit of the quotient q, r being the remainder so far
QuotientBit(f, d) ==
  LET r2 == BigScale(f.r, 2)
      q2 == BigScale(f.q, 2)
  IN  IF BigGE(r2, d) THEN [r |-> BigSub(r2, d), q |-> BigAdd(q2, <<1>>)]
                      ELSE [r |-> r2, q |-> q2]

RECURSIVE QuotientBits(_, _)
\* the bits of the quotient down to the one after the 53 of a double
QuotientBits(f, d) ==
  IF BigGE(f.q, Two53) THEN f ELSE QuotientBits(QuotientBit(f, d), d)

\* the double nearest to s * (n / d) * 2^x, for naturals n > 0 and d > 0
RoundRatio(s, n, d, x) ==
  LET nd == Bracketed([n |-> BigTrim(n), d |-> BigTrim(d), j |-> 0])
      qr == QuotientBits([r |-> BigSub(nd.n, nd.d), q |-> <<1>>], nd.d)
  IN  RoundNearestEven(s, qr.q, qr.r # <<>>, x + nd.j - 53)

\* a natural number as a double, and the double of a decimal literal
DoubleOf(n) == IF n = 0 THEN DoubleZero ELSE RoundRatio(1, BigOf(n), <<1>>, 0)
DoubleOfRatio(num, den) == IF num = 0 THEN DoubleZero ELSE RoundRatio(1, BigOf(num), BigOf(den), 0)

\* a + b exactly: s * n * 2^e
ExactSum(a, b) ==
  IF a.s = 0 THEN [s |-> b.s, n |-> b.m, e |-> b.e]
  ELSE IF b.s = 0 THEN [s |-> a.s, n |-> a.m, e |-> a.e]
  ELSE LET e == IF a.e < b.e THEN a.e ELSE b.e
           x == BigShl(a.m, a.e - e)
           y == BigShl(b.m, b.e - e)
       IN  IF a.s = b.s THEN [s |-> a.s, n |-> BigAdd(x, y), e |-> e]
           ELSE IF BigTrim(x) = BigTrim(y) THEN [s |-> 0, n |-> <<>>, e |-> 0]
           ELSE IF BigGE(x, y) THEN [s |-> a.s, n |-> BigSub(x, y), e |-> e]
           ELSE [s |-> b.s, n |-> BigSub(y, x), e |-> e]

Negated(a) == [a EXCEPT !.s = 0 - @]

DoubleAdd(a, b) ==
  LET sum == ExactSum(a, b)
  IN  IF sum.s = 0 THEN DoubleZero ELSE RoundRatio(sum.s, sum.n, <<1>>, sum.e)

DoubleSub(a, b) == DoubleAdd(a, Negated(b))

DoubleMul(a, b) ==
  IF a.s = 0 \/ b.s = 0 THEN DoubleZero
  ELSE RoundRatio(a.s * b.s, BigMul(a.m, b.m), <<1>>, a.e + b.e)

\* a / b for b # 0
DoubleDiv(a, b) ==
  IF a.s = 0 THEN DoubleZero
  ELSE RoundRatio(a.s * b.s, a.m, b.m, a.e - b.e)

\* the next bit of the root r of x, from the top: r + bit if its square is
\* at most x
RootBit(x, f) ==
  LET c == BigAdd(f.r, f.bit)
  IN  [r |-> IF BigGE(x, BigMul(c, c)) THEN c ELSE f.r, bit |-> BigHalf(f.bit)]

RECURSIVE RootBits(_, _)
\* the bits down to the last
RootBits(x, f) ==
  IF f.bit = <<>> THEN f ELSE RootBits(x, RootBit(x, f))

\* Math.sqrt(a) for a > 0: the root of m * 2^e with e made even; the root of
\* m * 2^56 has 55 bits
DoubleSqrt(a) ==
  LET odd == a.e % 2 = 1
      m == IF odd THEN BigScale(a.m, 2) ELSE a.m
      e == IF odd THEN a.e - 1 ELSE a.e
      x == BigShl(m, 56)
      r == RootBits(x, [r |-> <<>>, bit |-> Two54]).r
  IN  IF a.s = 0 THEN DoubleZero
      ELSE RoundNearestEven(1, BigHalf(r), BigOdd(r) \/ BigTrim(BigMul(r, r)) # BigTrim(x),
                            (e \div 2) - 27)

\* a <= b
DoubleLeq(a, b) == ExactSum(a, Negated(b)).s <= 0

\* a >= num / den and a <= num / den, for naturals num and den > 0
AtLeastRatio(a, num, den) ==
  IF a.s <= 0 THEN num = 0 /\ a.s = 0
  ELSE IF a.e >= 0 THEN BigGE(BigScale(BigShl(a.m, a.e), den), BigOf(num))
  ELSE BigGE(BigScale(a.m, den), BigShl(BigOf(num), 0 - a.e))
AtMostRatio(a, num, den) ==
  IF a.s <= 0 THEN TRUE
  ELSE IF a.e >= 0 THEN BigGE(BigOf(num), BigScale(BigShl(a.m, a.e), den))
  ELSE BigGE(BigShl(BigOf(num), 0 - a.e), BigScale(a.m, den))

MathMin(a, b) == IF DoubleLeq(a, b) THEN a ELSE b
MathMax(a, b) == IF DoubleLeq(a, b) THEN b ELSE a

\* the Wilson score lower bound: (center - spread) / denominator
UpperBound(center, spread, denominator) ==
  DoubleDiv(DoubleAdd(center, spread), denominator)
LowerBound(center, spread, denominator) ==
  DoubleDiv(DoubleSub(center, spread), denominator)

DoubleConfidence(thumbsUp, thumbsDown) ==
  LET total == thumbsUp + thumbsDown
      n == DoubleOf(total)
      p == DoubleDiv(DoubleOf(thumbsUp), n)
      z == DoubleOfRatio(ZNum, ZDen)
      zz == DoubleMul(z, z)
      denominator == DoubleAdd(DoubleOf(1), DoubleDiv(zz, n))
      center == DoubleAdd(p, DoubleDiv(zz, DoubleOf(2 * total)))
      spread == DoubleMul(z, DoubleSqrt(DoubleDiv(
                  DoubleAdd(DoubleMul(p, DoubleSub(DoubleOf(1), p)),
                            DoubleDiv(zz, DoubleOf(4 * total))), n)))
      score == LowerBound(center, spread, denominator)
  IN  IF total = 0 THEN DoubleOf(1)
      ELSE MathMax(DoubleZero, MathMin(DoubleOf(1), score))

(***************************************************************************)
(* Bounds of the model.                                                    *)
(***************************************************************************)
NumSlots == 2          \* requests in flight at once
MaxEntries == 2        \* rows of answer_library
MaxClock == 2          \* statements that read NOW(), one per library hit
MaxNewFeedback == 2    \* rows of query_feedback created after the initial state
NumQueryIds == 3       \* ask_queries rows feedback can refer to
NumIps == 2            \* requester addresses
Dim == 4               \* embedding dimensions (768 in DEFAULT_CONFIG)

Slots == 1..NumSlots
QueryIds == 1..NumQueryIds
Ips == 1..NumIps
EntryIds == 1..MaxEntries

\* Every query but the first has got its feedback from every address before
\* the initial state; MaxVotes is the most votes an entry can then collect.
EarlierQueryIds == QueryIds \ {1}
InitialVotes == Cardinality(EarlierQueryIds) * NumIps
MaxVotes == InitialVotes + MaxNewFeedback

\* The scores of all vote counts the model reaches, computed once.
WilsonTable == [up \in 0..MaxVotes |-> [down \in 0..MaxVotes |-> WilsonScore(up, down)]]

calculateConfidence(thumbsUp, thumbsDown) == WilsonTable[thumbsUp][thumbsDown]

(***************************************************************************)
(* Embeddings.  The provider's raw vectors have the lengths of different   *)
(* embedding models; normalizeEmbedding brings them to Dim.  Raw vectors   *)
(* are non-zero in their first component, so no cosine is undefined.       *)
(***************************************************************************)
Queries == {"clawback", "clawbacks"}

RawEmbedding(q) ==
  CASE q = "clawback"  -> <<25>>
    [] q = "clawbacks" -> <<23, 4, 4, 8, 9>>

\* what the generation step answered to the query
GeneratedAnswer(q) ==
  CASE q = "clawback"  -> "a clawback is ..."
    [] q = "clawbacks" -> "clawback policies are ..."

normalizeEmbedding(embedding, targetDims) ==
  IF Len(embedding) = targetDims THEN embedding
  ELSE IF Len(embedding) > targetDims THEN SubSeq(embedding, 1, targetDims)
  ELSE embedding \o [i \in 1..(targetDims - Len(embedding)) |-> 0]

RECURSIVE Dot(_, _)
Dot(a, b) == IF a = <<>> THEN 0 ELSE Head(a) * Head(b) + Dot(Tail(a), Tail(b))

NormSq(a) == Dot(a, a)

SimScale == 100

\* 1 - (a <=> b) >= pct / SimScale: the cosine of a and b against a threshold
CosAtLeast(a, b, pct) ==
  LET d == Dot(a, b)
  IN  /\ d >= 0
      /\ BigGE(BigMul(BigOf(d * d), BigOf(SimScale * SimScale)),
               BigMul(BigOf(pct * pct), BigMul(BigOf(NormSq(a)), BigOf(NormSq(b)))))

Embeddings == {normalizeEmbedding(RawEmbedding(q), Dim) : q \in Queries}

\* 1 - (a <=> b) in units of 1/SimScale, rounded down, for the vectors in use
SimilarityTable ==
  [a \in Embeddings |-> [b \in Embeddings |->
     CHOOSE pct \in 0..SimScale :
       CosAtLeast(a, b, pct) /\ (pct = SimScale \/ ~CosAtLeast(a, b, pct + 1))]]

Similarity(a, b) == SimilarityTable[a][b]

\* ORDER BY query_embedding <=> v: a is strictly nearer to v than b is
Nearer(a, b, v) ==
  LET da == Dot(a, v)
      db == Dot(b, v)
  IN  IF da >= 0 /\ db >= 0 THEN da * da * NormSq(b) > db * db * NormSq(a)
      ELSE IF da < 0 /\ db < 0 THEN da * da * NormSq(b) < db * db * NormSq(a)
      ELSE da >= 0 /\ db < 0

(***************************************************************************)
(* State.                                                                  *)
(*   library   answer_library: the rows in insertion order, a row's id     *)
(*             being its position                                          *)
(*   feedback  query_feedback: a bag of rows (the table has no unique      *)
(*             constraint besides the generated primary key)               *)
(*   now       the database clock NOW(); every statement that reads it     *)
(*             gets a later time than the one before                       *)
(*   req       per request slot, the request in flight with its locals     *)
(*   response  what the last step sent to a caller, if anything            *)
(*   applied   history: per library id, the increments and votes whose     *)
(*             UPDATE statement has run                                    *)
(*   config    the environment: which generation backends are configured   *)
(*   ask       the blocking askSPM call in flight, with its locals         *)
(*   history   conversation_sessions.messages_json: per session token,     *)
(*             the exchanges the session holds                             *)
(*   askQueries  the number of ask_queries rows written by askSPM          *)
(*   stream    the streaming response in flight: the events enqueued, the  *)
(*             state of the channel and the locals of its start callback   *)
(*   chunks    knowledge_chunks: the rows in insertion order               *)
(*   schema    the dimensions of the column knowledge_chunks.embedding     *)
(*   runs      the runs of the ingestion script, each with its locals      *)
(*   fn        the last call of a function and what it returned            *)
(*   said      the exchanges appended to the session, oldest first         *)
(*   sessions  conversation_sessions: per session token, whether the row   *)
(*             is there and its expires_at                                 *)
(*   prompts   per ask_queries row, the session and the conversation       *)
(*             history in the prompt of the response the row logs          *)
(***************************************************************************)
VARIABLES library, feedback, now, req, response, applied,
          config, ask, history, askQueries, stream,
          chunks, schema, runs, fn, said, sessions, prompts

vars == <<library, feedback, now, req, response, applied,
          config, ask, history, askQueries, stream,
          chunks, schema, runs, fn, said, sessions, prompts>>

\* the knowledge base, the ingestion runs, the function call under study,
\* the messages said, the session rows and the prompts, which no library
\* operation touches
kbVars == <<chunks, schema, runs, fn, said, sessions, prompts>>

\* the state of the query pipeline, which no library operation touches
pipeVars == <<config, ask, history, askQueries, stream>>

Null == -1             \* SQL NULL / undefined
NoId == 0              \* request field answerLibraryId absent
NullVector == <<>>     \* a NULL query_embedding

DEFAULT_similarityThreshold == 92      \* 0.92, in 1/SimScale
DEFAULT_minConfidence == 50            \* 0.5, in the DECIMAL(3,2) unit 1/100
DeactivateBelow == 3000                \* 0.3, in 1/ConfScale
DeactivateMinVotes == 5
InitialConfidence == 100               \* 1.0 as DECIMAL(3,2)
InitialUseCount == 1

Thresholds == {Null, 95}               \* the optional threshold argument
FeedbackTypes == {"thumbs_up", "thumbs_down"}
Ids == 1..Len(library)

\* A double stored in a DECIMAL(3,2) column is rounded to two decimals.
ToDecimal32(c) == (c * 100 + ConfScale \div 2) \div ConfScale

Idle == [op |-> "idle"]
Silent == [op |-> "none"]

\* a new request runs in the first slot that is free
Free(p) == req[p] = Idle /\ \A s \in Slots : s < p => req[s] # Idle

(***************************************************************************)
(* Function calls.  fn is one call of an exported function: its arguments *)
(* as the caller passed them, and once it has returned, its result and    *)
(* what the arrays it was given then hold.  A JavaScript array is an      *)
(* object the callee could write to, so the argument array is recorded    *)
(* before and after the call.                                              *)
(***************************************************************************)
MaxLen == 4
MaxTargetDims == 3
Components == {0, 3, 7}

RECURSIVE Arrays(_)
Arrays(len) ==
  IF len = 0 THEN {<<>>}
  ELSE Arrays(len - 1) \cup {Append(a, c) : a \in {b \in Arrays(len - 1) : Len(b) = len - 1},
                                            c \in Components}

NoCall == [op |-> "none", pc |-> "none"]

\* the argument array and the returned array after normalizeEmbedding:
\* embedding.slice and [...embedding] are new arrays, and push goes to the copy
normalizeEmbeddingInPlace(embedding, targetDims) ==
  [embedding |-> IF Len(embedding) < targetDims
                   THEN normalizeEmbedding(embedding, targetDims)
                   ELSE embedding,
   result |-> normalizeEmbedding(embedding, targetDims)]
normalizeEmbeddingArrays(embedding, targetDims) ==
  [embedding |-> embedding,
   result |-> normalizeEmbedding(embedding, targetDims)]

NormalizeCalls ==
  {[op |-> "normalizeEmbedding", pc |-> "called", argument |-> a, embedding |-> a,
    targetDims |-> d, result |-> <<>>] : a \in Arrays(MaxLen), d \in 0..MaxTargetDims}

normalizeEmbeddingReturns ==
  /\ fn.op = "normalizeEmbedding"
  /\ fn.pc = "called"
  /\ LET after == normalizeEmbeddingArrays(fn.embedding, fn.targetDims)
     IN fn' = [fn EXCEPT !.pc = "returned", !.embedding = after.embedding,
                         !.result = after.result]
  /\ UNCHANGED <<library, feedback, now, req, response, applied, pipeVars, chunks, schema, runs, said, sessions, prompts>>

\* calculateConfidence is called with the counters of runWilsonScoreTests,
\* and then, as updateAnswerConfidence does for one vote after another, with
\* the counters of the call before and one more vote; before is that call
MaxThumbsUp == 2
MaxThumbsDown == 11
WilsonTests ==
  {<<0, 0>>, <<1, 0>>, <<0, 1>>, <<10, 0>>, <<0, 10>>, <<5, 5>>, <<100, 0>>, <<95, 5>>, <<1, 9>>}

NoVotes == [thumbsUp |-> Null, thumbsDown |-> Null, result |-> DoubleZero]

ConfidenceCall(thumbsUp, thumbsDown, before) ==
  [op |-> "calculateConfidence", pc |-> "called", thumbsUp |-> thumbsUp,
   thumbsDown |-> thumbsDown, result |-> DoubleZero, before |-> before]

ConfidenceCalls == {ConfidenceCall(t[1], t[2], NoVotes) : t \in WilsonTests}

calculateConfidenceReturns ==
  /\ fn.op = "calculateConfidence"
  /\ fn.pc = "called"
  /\ fn' = [fn EXCEPT !.pc = "returned",
                      !.result = DoubleConfidence(fn.thumbsUp, fn.thumbsDown)]
  /\ UNCHANGED <<library, feedback, now, req, response, applied, pipeVars, chunks, schema, runs, said, sessions, prompts>>

Recalculate(feedbackType) ==
  /\ fn.op = "calculateConfidence"
  /\ fn.pc = "returned"
  /\ LET newThumbsUp == IF feedbackType = "thumbs_up" THEN fn.thumbsUp + 1 ELSE fn.thumbsUp
         newThumbsDown == IF feedbackType = "thumbs_down" THEN fn.thumbsDown + 1
                                                          ELSE fn.thumbsDown
     IN  /\ newThumbsUp <= MaxThumbsUp \/ newThumbsUp = fn.thumbsUp
         /\ newThumbsDown <= MaxThumbsDown \/ newThumbsDown = fn.thumbsDown
         /\ fn' = ConfidenceCall(newThumbsUp, newThumbsDown,
                                 [thumbsUp |-> fn.thumbsUp, thumbsDown |-> fn.thumbsDown,
                                  result |-> fn.result])
  /\ UNCHANGED <<library, feedback, now, req, response, applied, pipeVars, chunks, schema, runs, said, sessions, prompts>>

(***************************************************************************)
(* The knowledge base.  chunks is the table knowledge_chunks, its rows in  *)
(* insertion order, and schema the dimensions its column embedding was     *)
(* created with: the migration declares vector(1536), the scripts and the  *)
(* queries work with TARGET_DIMS = 768 and say that this matches the       *)
(* schema.  A vector of other dimensions than the column's is refused by   *)
(* the database.  Dim stands for 768 and twice Dim for 1536.               *)
(*                                                                         *)
(* runs holds the runs of the ingestion script, each with its locals; a    *)
(* run reads kbFile.chunks, here five cards of which the second has the    *)
(* content of the first under another keyword.                             *)
(***************************************************************************)
NumCards == 5
NumRuns == 2
BATCH_SIZE == 2
TARGET_DIMS == Dim
MigrationDims == 2 * Dim

CardIds == 1..NumCards
RunIds == 1..NumRuns

CardContent(c) ==
  CASE c \in {1, 2} -> "commission paid is recovered"
    [] c = 3 -> "quota is the target"
    [] c = 4 -> "an accelerator raises the rate"
    [] OTHER -> "territories are assigned"

CardKeyword(c) ==
  CASE c = 1 -> "clawback"
    [] c = 2 -> "recovery"
    [] c = 3 -> "quota"
    [] c = 4 -> "accelerator"
    [] OTHER -> "territory"

\* createHash('sha256').update(content).digest('hex'): equal for equal
\* contents and, collisions apart, for no others
generateContentHash(content) == "sha256(" \o content \o ")"

\* what the embedding provider answers for the text keyword: content
CardText(c) == CardKeyword(c) \o ": " \o CardContent(c)
CardEmbedding(c) ==
  CASE c = 1 -> <<5>>
    [] c = 2 -> <<4, 3, 0, 0, 6>>
    [] c = 3 -> <<3, 4>>
    [] c = 4 -> <<3, 0, 4>>
    [] OTHER -> <<0, 0, 5, 0>>

NewChunk(c, embedding, contentHash) ==
  [card_id |-> c, keyword |-> CardKeyword(c), content |-> CardContent(c),
   embedding |-> embedding, content_hash |-> contentHash]

RunIdle ==
  [pc |-> "idle", batchNum |-> 0, newCards |-> <<>>, i |-> 0,
   created |-> 0, skipped |-> 0, errors |-> 0]

totalBatches == (NumCards + BATCH_SIZE - 1) \div BATCH_SIZE

\* chunks.slice(start, end)
Batch(batchNum) ==
  LET start == batchNum * BATCH_SIZE
      end == IF start + BATCH_SIZE < NumCards THEN start + BATCH_SIZE ELSE NumCards
  IN  [k \in 1..(end - start) |-> start + k]

RECURSIVE Filter(_, _)
\* batch.filter((c) => !existingHashes.has(generateContentHash(c.content)))
Filter(batch, existingHashes) ==
  IF batch = <<>> THEN <<>>
  ELSE (IF generateContentHash(CardContent(Head(batch))) \in existingHashes
          THEN <<>> ELSE <<Head(batch)>>)
       \o Filter(Tail(batch), existingHashes)

\* main(): up to the loop over the batches
RunStart(r) ==
  /\ runs[r].pc = "idle"
  /\ runs' = [runs EXCEPT ![r] = [RunIdle EXCEPT !.pc = "findMany"]]
  /\ UNCHANGED <<library, feedback, now, req, response, applied, pipeVars, chunks, schema, fn, said, sessions, prompts>>

\* the head of the loop and prisma.knowledgeChunk.findMany for the batch
RunFindMany(r) ==
  /\ runs[r].pc = "findMany"
  /\ IF runs[r].batchNum >= totalBatches
       THEN runs' = [runs EXCEPT ![r].pc = "done"]
       ELSE LET batch == Batch(runs[r].batchNum)
                contentHashes == {generateContentHash(CardContent(batch[k])) :
                                    k \in 1..Len(batch)}
                existingHashes == {chunks[n].content_hash : n \in 1..Len(chunks)}
                                    \cap contentHashes
                newCards == Filter(batch, existingHashes)
            IN  runs' = [runs EXCEPT
                  ![r].skipped = @ + Len(batch) - Len(newCards),
                  ![r].newCards = newCards,
                  ![r].batchNum = IF newCards = <<>> THEN @ + 1 ELSE @,
                  ![r].pc = IF newCards = <<>> THEN "findMany" ELSE "embeddings"]
  /\ UNCHANGED <<library, feedback, now, req, response, applied, pipeVars, chunks, schema, fn, said, sessions, prompts>>

\* generateEmbeddings(texts) answers, or throws and the batch is given up
RunEmbeddings(r, ok) ==
  /\ runs[r].pc = "embeddings"
  /\ runs' = IF ok
       THEN [runs EXCEPT ![r].pc = "insert", ![r].i = 1]
       ELSE [runs EXCEPT ![r].pc = "findMany", ![r].batchNum = @ + 1,
                         ![r].errors = @ + Len(runs[r].newCards)]
  /\ UNCHANGED <<library, feedback, now, req, response, applied, pipeVars, chunks, schema, fn, said, sessions, prompts>>

\* the rows after INSERT INTO knowledge_chunks ... without ON CONFLICT: the
\* row is added whatever the table holds
InsertedAlways(rows, chunk) == Append(rows, chunk)
\* the rows after INSERT INTO knowledge_chunks ... ON CONFLICT (content_hash)
\* DO NOTHING, under the unique index on content_hash
Inserted(rows, chunk) ==
  IF \E n \in 1..Len(rows) : rows[n].content_hash = chunk.content_hash
    THEN rows
    ELSE Append(rows, chunk)

\* one pass of the loop over newCards: the INSERT, which fails for a vector
\* that has not the dimensions of the column
RunInsert(r) ==
  /\ runs[r].pc = "insert"
  /\ LET card == runs[r].newCards[runs[r].i]
         embedding == normalizeEmbedding(CardEmbedding(card), TARGET_DIMS)
         contentHash == generateContentHash(CardContent(card))
         last == runs[r].i = Len(runs[r].newCards)
         next == [runs EXCEPT ![r].i = IF last THEN 0 ELSE @ + 1,
                              ![r].newCards = IF last THEN <<>> ELSE @,
                              ![r].batchNum = IF last THEN @ + 1 ELSE @,
                              ![r].pc = IF last THEN "findMany" ELSE "insert"]
     IN  IF Len(embedding) = schema.embedding
           THEN /\ chunks' = Inserted(chunks, NewChunk(card, embedding, contentHash))
                /\ runs' = [next EXCEPT ![r].created = @ + 1]
           ELSE /\ chunks' = chunks
                /\ runs' = [next EXCEPT ![r].errors = @ + 1]
  /\ UNCHANGED <<library, feedback, now, req, response, applied, pipeVars, schema, fn, said, sessions, prompts>>

(***************************************************************************)
(* searchKnowledgeBase(queryEmbedding, topK, threshold): one SELECT over   *)
(* knowledge_chunks.  The call and what it returned are recorded in fn.    *)
(* Of rows at the same distance SQL may return any, in any order, so the   *)
(* SELECT has a set of possible results.  The search is exact: the IVFFlat *)
(* index of the table is not modelled.                                     *)
(***************************************************************************)
QueryEmbeddings == {<<5>>, <<3, 0, 4>>, <<1, 1, 0, 0, 9>>}
TopKs == {0, 1, 2, 5}
SearchThresholds == {30, 50, 60, 90}    \* in units of 1/SimScale

\* the vectors a search compares: what the run stores and what is asked
ChunkEmbeddings == {normalizeEmbedding(CardEmbedding(c), TARGET_DIMS) : c \in CardIds}
SearchVectors == {normalizeEmbedding(q, TARGET_DIMS) : q \in QueryEmbeddings}

\* 1 - (a <=> v) in units of 1/SimScale, rounded down, computed once
SimilarityPctTable ==
  [a \in ChunkEmbeddings |-> [v \in SearchVectors |->
     CHOOSE pct \in 0..SimScale :
       CosAtLeast(a, v, pct) /\ (pct = SimScale \/ ~CosAtLeast(a, v, pct + 1))]]

SimilarityPct(a, v) == SimilarityPctTable[a][v]

\* ORDER BY embedding <=> v DESC: the farther row first
OrderedBeforeDesc(a, b, v) == Nearer(b, a, v)
\* ORDER BY embedding <=> v: the row with embedding a must come before the
\* row with embedding b
OrderedBefore(a, b, v) == Nearer(a, b, v)

\* WHERE embedding IS NOT NULL AND 1 - (embedding <=> v) >= threshold
Passing(rows, v, threshold) ==
  {n \in 1..Len(rows) : SimilarityPct(rows[n].embedding, v) >= threshold}

\* the row sequences ORDER BY embedding <=> v LIMIT topK may produce
SelectChunks(rows, v, topK, threshold) ==
  LET passing == Passing(rows, v, threshold)
      k == IF topK < Cardinality(passing) THEN topK ELSE Cardinality(passing)
  IN  {seq \in [1..k -> passing] :
         /\ \A i, j \in 1..k : i < j =>
              /\ seq[i] # seq[j]
              /\ ~OrderedBefore(rows[seq[j]].embedding, rows[seq[i]].embedding, v)
         /\ \A n \in passing : (\A i \in 1..k : seq[i] # n) =>
              \A i \in 1..k :
                ~OrderedBefore(rows[n].embedding, rows[seq[i]].embedding, v)}

\* results.map((row) => ({chunkId: row.id, ..., score: Number(row.similarity)}))
RetrievedChunk(rows, n, v) ==
  [chunkId |-> n, cardId |-> rows[n].card_id, keyword |-> rows[n].keyword,
   content |-> rows[n].content, score |-> SimilarityPct(rows[n].embedding, v)]

searchKnowledgeBase(rows, queryEmbedding, topK, threshold) ==
  LET normalizedEmbedding == normalizeEmbedding(queryEmbedding, TARGET_DIMS)
  IN  {[i \in 1..Len(seq) |-> RetrievedChunk(rows, seq[i], normalizedEmbedding)] :
         seq \in SelectChunks(rows, normalizedEmbedding, topK, threshold)}

\* A call of searchKnowledgeBase returns.  Against a column of other
\* dimensions than the query vector's the distance is an error wherever the
\* database evaluates it; with no row to evaluate it on, the SELECT may
\* also return no rows.
searchKnowledgeBaseReturns(queryEmbedding, topK, threshold) ==
  /\ \E outcome \in
         IF schema.embedding = TARGET_DIMS
           THEN {[pc |-> "returned", result |-> result] :
                   result \in searchKnowledgeBase(chunks, queryEmbedding, topK, threshold)}
           ELSE {[pc |-> "returned", result |-> <<>>], [pc |-> "thrown", result |-> <<>>]} :
       fn' = [op |-> "searchKnowledgeBase", pc |-> outcome.pc,
              queryEmbedding |-> queryEmbedding, topK |-> topK,
              threshold |-> threshold, result |-> outcome.result]
  /\ UNCHANGED <<library, feedback, now, req, response, applied, pipeVars, chunks, schema, runs, said, sessions, prompts>>

(***************************************************************************)
(* saveToAnswerLibrary: one INSERT.  The statement casts sourceQueryId to  *)
(* uuid, and the column references ask_queries(id): a value that is not    *)
(* the text of a uuid makes the statement fail, and the call throws.       *)
(***************************************************************************)
NewEntry(queryText, queryEmbedding, answerText, sourceQueryId) ==
  [ query_text        |-> queryText,
    source_query_id   |-> sourceQueryId,
    query_embedding   |-> normalizeEmbedding(queryEmbedding, Dim),
    answer_text       |-> answerText,
    confidence_score  |-> InitialConfidence,
    thumbs_up_count   |-> 0,
    thumbs_down_count |-> 0,
    use_count         |-> InitialUseCount,
    last_used_at      |-> Null,
    is_active         |-> TRUE ]

\* the id of an ask_queries row, as askSPM passes it (queryRecord.id)
QueryRecordId(n) == [uuid |-> TRUE, id |-> n]

\* the id of an ask_queries row in the place of 'stream-' + Date.now()
StreamQueryRecordId(ms) == QueryRecordId(1)

\* 'stream-' + Date.now(), as the streaming route passes it
StreamSourceQueryId(ms) == [uuid |-> FALSE, id |-> ms]

\* ${sourceQueryId}::uuid
CastsToUuid(sourceQueryId) == sourceQueryId.uuid

SourceQueryIds == {QueryRecordId(1), StreamSourceQueryId(0)}

\* a SaveAnswerRequest
SaveRequest(queryText, answerText, sourceQueryId) ==
  [queryText |-> queryText, queryEmbedding |-> RawEmbedding(queryText),
   answerText |-> answerText, sourceQueryId |-> sourceQueryId]

SaveRejected == [op |-> "save", error |-> "invalid input syntax for type uuid"]

\* an INSERT that first clears the rows that are no longer active
saveEvictingInactive(p, request) ==
  /\ Free(p)
  /\ Len(library) < MaxEntries
  /\ IF CastsToUuid(request.sourceQueryId)
       THEN /\ library' = Append(SelectSeq(library, LAMBDA row : row.is_active),
                                 NewEntry(request.queryText, request.queryEmbedding,
                                          request.answerText, request.sourceQueryId))
            /\ response' = [op |-> "save", id |-> Len(library) + 1]
       ELSE /\ response' = SaveRejected
            /\ UNCHANGED library
  /\ UNCHANGED <<feedback, now, req, applied, pipeVars, kbVars>>

saveToAnswerLibrary(p, request) ==
  /\ Free(p)
  /\ Len(library) < MaxEntries
  /\ IF CastsToUuid(request.sourceQueryId)
       THEN /\ library' = Append(library,
                                 NewEntry(request.queryText, request.queryEmbedding,
                                          request.answerText, request.sourceQueryId))
            /\ response' = [op |-> "save", id |-> Len(library) + 1]
       ELSE /\ response' = SaveRejected
            /\ UNCHANGED library
  /\ UNCHANGED <<feedback, now, req, applied, pipeVars, kbVars>>

(***************************************************************************)
(* searchAnswerLibrary: a SELECT, then on a match an UPDATE.               *)
(***************************************************************************)
EffectiveThreshold(threshold) ==
  IF threshold = Null THEN DEFAULT_similarityThreshold ELSE threshold

\* the WHERE clause without its conditions on is_active and confidence_score
CandidateBySimilarity(row, v, threshold) ==
  /\ row.query_embedding # NullVector
  /\ Similarity(row.query_embedding, v) >= threshold

\* the WHERE clause with > where the code has >=
CandidateAbove(row, v, threshold) ==
  /\ row.query_embedding # NullVector
  /\ row.is_active = TRUE
  /\ row.confidence_score >= DEFAULT_minConfidence
  /\ Similarity(row.query_embedding, v) > threshold

\* the WHERE clause
Candidate(row, v, threshold) ==
  /\ row.query_embedding # NullVector
  /\ row.is_active = TRUE
  /\ row.confidence_score >= DEFAULT_minConfidence
  /\ Similarity(row.query_embedding, v) >= threshold

Candidates(lib, v, threshold) ==
  {e \in 1..Len(lib) : Candidate(lib[e], v, threshold)}

\* LIMIT 1 without the ORDER BY: any row the WHERE clause lets through
AnyRows(lib, v, threshold) == Candidates(lib, v, threshold)

\* ORDER BY distance LIMIT 1: the rows the statement may return; rows at the
\* same distance come in no defined order
FirstRows(lib, v, threshold) ==
  {e \in Candidates(lib, v, threshold) :
     \A f \in Candidates(lib, v, threshold) :
        ~Nearer(lib[f].query_embedding, lib[e].query_embedding, v)}

\* return null
LookupMiss == [op |-> "lookup", hit |-> FALSE]

\* lookups that have selected their match and not yet run their UPDATE
InFlightLookups == Cardinality({p \in Slots : req[p].op = "lookup"})

SearchSelect(p, q, threshold) ==
  /\ Free(p)
  /\ LET v == normalizeEmbedding(RawEmbedding(q), Dim)
         rows == FirstRows(library, v, EffectiveThreshold(threshold))
     IN  \/ /\ rows = {}
            /\ response' = LookupMiss
            /\ UNCHANGED req
         \/ \E e \in rows :
              /\ now + InFlightLookups < MaxClock
              /\ req' = [req EXCEPT ![p] =
                   [op |-> "lookup",
                    match |-> [id |-> e,
                               answer_text |-> library[e].answer_text,
                               confidence_score |-> library[e].confidence_score,
                               similarity |-> Similarity(library[e].query_embedding, v),
                               use_count |-> library[e].use_count]]]
              /\ response' = Silent
  /\ UNCHANGED <<library, feedback, now, applied, pipeVars, kbVars>>

\* the count the SELECT has read, plus one
ReadUseCountPlusOne(row, match) == match.use_count + 1

\* SET use_count = use_count + 1
IncrementedUseCount(row, match) == row.use_count + 1

\* an UPDATE that also sets the row active again
UsedRowReactivated(row, match, at) ==
  [row EXCEPT !.use_count = IncrementedUseCount(row, match),
              !.last_used_at = at,
              !.is_active = TRUE]

\* the row after UPDATE answer_library SET use_count = use_count + 1,
\* last_used_at = NOW() WHERE id = match.id
UsedRow(row, match, at) ==
  [row EXCEPT !.use_count = IncrementedUseCount(row, match),
              !.last_used_at = at]

SearchUpdate(p) ==
  /\ req[p].op = "lookup"
  /\ LET m == req[p].match
     IN  /\ library' = [library EXCEPT ![m.id] = UsedRow(library[m.id], m, now)]
         /\ now' = now + 1
         /\ applied' = [applied EXCEPT ![m.id].hits = @ + 1]
         /\ response' = [op |-> "lookup", hit |-> TRUE,
                         result |-> [id |-> m.id,
                                     answerText |-> m.answer_text,
                                     confidenceScore |-> m.confidence_score,
                                     similarity |-> m.similarity,
                                     useCount |-> m.use_count + 1]]
         /\ req' = [req EXCEPT ![p] = Idle]
  /\ UNCHANGED <<feedback, pipeVars, kbVars>>

(***************************************************************************)
(* The feedback route, POST: findFirst, create, and when the request       *)
(* names a library entry, updateAnswerConfidence: findUnique, update.      *)
(***************************************************************************)
FeedbackRow(r) ==
  [ queryId         |-> r.queryId,
    answerLibraryId |-> r.answerLibraryId,
    feedbackType    |-> r.feedbackType,
    ipAddress       |-> r.ipAddress ]

\* a findFirst that sees only the feedback given on a library entry
ExistingEntryFeedback(rows, queryId, ipAddress) ==
  {row \in BagToSet(rows) :
     row.queryId = queryId /\ row.ipAddress = ipAddress /\ row.answerLibraryId # NoId}

\* prisma.queryFeedback.findFirst({ where: { queryId, ipAddress } })
ExistingFeedback(rows, queryId, ipAddress) ==
  {row \in BagToSet(rows) : row.queryId = queryId /\ row.ipAddress = ipAddress}

\* the rows created or about to be created since the initial state
NewFeedback ==
  BagCardinality(feedback) - InitialVotes
    + Cardinality({s \in Slots : req[s].op = "feedback" /\ req[s].pc = "create"})

FeedbackResponse(status) == [op |-> "feedback", status |-> status]

FeedbackCheck(p, queryId, ipAddress, answerLibraryId, feedbackType) ==
  /\ Free(p)
  /\ NewFeedback < MaxNewFeedback
  /\ IF ExistingFeedback(feedback, queryId, ipAddress) # {}
       THEN /\ response' = FeedbackResponse(409)
            /\ UNCHANGED req
       ELSE /\ req' = [req EXCEPT ![p] =
                 [op |-> "feedback", pc |-> "create",
                  queryId |-> queryId, ipAddress |-> ipAddress,
                  answerLibraryId |-> answerLibraryId, feedbackType |-> feedbackType,
                  answer |-> Null]]
            /\ response' = Silent
  /\ UNCHANGED <<library, feedback, now, applied, pipeVars, kbVars>>

\* prisma.queryFeedback.create; the foreign key answer_library_id rejects a
\* row naming an entry that does not exist, and the route answers 500
FeedbackCreate(p) ==
  /\ req[p].op = "feedback" /\ req[p].pc = "create"
  /\ LET r == req[p]
     IN  IF r.answerLibraryId # NoId /\ r.answerLibraryId \notin Ids
           THEN /\ response' = FeedbackResponse(500)
                /\ req' = [req EXCEPT ![p] = Idle]
                /\ UNCHANGED feedback
           ELSE /\ feedback' = feedback (+) SetToBag({FeedbackRow(r)})
                /\ IF r.answerLibraryId = NoId
                     THEN /\ response' = FeedbackResponse(200)
                          /\ req' = [req EXCEPT ![p] = Idle]
                     ELSE /\ req' = [req EXCEPT ![p].pc = "read"]
                          /\ response' = Silent
  /\ UNCHANGED <<library, now, applied, pipeVars, kbVars>>

\* updateAnswerConfidence, findUnique: the counters as they are now
ConfidenceRead(p) ==
  /\ req[p].op = "feedback" /\ req[p].pc = "read"
  /\ LET row == library[req[p].answerLibraryId]
     IN  req' = [req EXCEPT ![p].pc = "write",
                            ![p].answer = [thumbsUpCount |-> row.thumbs_up_count,
                                           thumbsDownCount |-> row.thumbs_down_count]]
  /\ response' = Silent
  /\ UNCHANGED <<library, feedback, now, applied, pipeVars, kbVars>>

newThumbsUp(answer, feedbackType) ==
  IF feedbackType = "thumbs_up" THEN answer.thumbsUpCount + 1 ELSE answer.thumbsUpCount

newThumbsDown(answer, feedbackType) ==
  IF feedbackType = "thumbs_down" THEN answer.thumbsDownCount + 1 ELSE answer.thumbsDownCount

\* the test without its condition on the number of votes
lowConfidence(newConfidence, totalVotes) ==
  newConfidence < DeactivateBelow

shouldDeactivate(newConfidence, totalVotes) ==
  newConfidence < DeactivateBelow /\ totalVotes >= DeactivateMinVotes

\* const isActive = !(confidenceScore < 0.3 && total >= 5): the flag
\* recomputed on every update
isActiveRecomputed(deactivate, row) == ~deactivate

\* isActive: shouldDeactivate ? false : undefined, a field that is undefined
\* being left as it is
isActive(deactivate, row) == IF deactivate THEN FALSE ELSE row.is_active

\* an update that stores the confidence of the counters as they were read
UpdatedRowOldConfidence(row, answer, feedbackType) ==
  LET up == newThumbsUp(answer, feedbackType)
      down == newThumbsDown(answer, feedbackType)
      newConfidence == calculateConfidence(answer.thumbsUpCount, answer.thumbsDownCount)
  IN  [row EXCEPT !.thumbs_up_count = up,
                  !.thumbs_down_count = down,
                  !.confidence_score = ToDecimal32(newConfidence),
                  !.is_active = isActive(shouldDeactivate(newConfidence, up + down), row)]

\* the row after prisma.answerLibrary.update({ data: {...} })
UpdatedRow(row, answer, feedbackType) ==
  LET up == newThumbsUp(answer, feedbackType)
      down == newThumbsDown(answer, feedbackType)
      newConfidence == calculateConfidence(up, down)
  IN  [row EXCEPT !.thumbs_up_count = up,
                  !.thumbs_down_count = down,
                  !.confidence_score = ToDecimal32(newConfidence),
                  !.is_active = isActive(shouldDeactivate(newConfidence, up + down), row)]

ConfidenceWrite(p) ==
  /\ req[p].op = "feedback" /\ req[p].pc = "write"
  /\ LET r == req[p]
         e == r.answerLibraryId
     IN  /\ library' = [library EXCEPT ![e] = UpdatedRow(library[e], r.answer, r.feedbackType)]
         /\ applied' = [applied EXCEPT
               ![e].up = IF r.feedbackType = "thumbs_up" THEN @ + 1 ELSE @,
               ![e].down = IF r.feedbackType = "thumbs_down" THEN @ + 1 ELSE @]
         /\ response' = FeedbackResponse(200)
         /\ req' = [req EXCEPT ![p] = Idle]
  /\ UNCHANGED <<feedback, now, pipeVars, kbVars>>

(***************************************************************************)
(* getLibraryStats: one SELECT of aggregates.                              *)
(***************************************************************************)
RECURSIVE SumOver(_, _, _)
SumOver(lib, S, field) ==
  IF S = {} THEN 0
  ELSE LET e == CHOOSE x \in S : TRUE
       IN  lib[e][field] + SumOver(lib, S \ {e}, field)

LibraryStats(lib) ==
  LET all == 1..Len(lib)
      active == {e \in all : lib[e].is_active}
  IN  [ totalAnswers  |-> Cardinality(all),
        activeAnswers |-> Cardinality(active),
        totalUses     |-> SumOver(lib, all, "use_count"),
        \* AVG(...) is NULL over no rows, and the code then reports 1.0
        avgConfidence |-> IF active = {} THEN InitialConfidence
                          ELSE SumOver(lib, active, "confidence_score") \div Cardinality(active) ]

getLibraryStats(p) ==
  /\ Free(p)
  /\ response' = [op |-> "stats", result |-> LibraryStats(library)]
  /\ UNCHANGED <<library, feedback, now, req, applied, pipeVars, kbVars>>

(***************************************************************************)
(* The query pipeline, blocking: askSPM and generateLLMResponse.  One      *)
(* call runs at a time, a statement a step; a call to a backend is two     *)
(* steps, the request going out and the reply coming in, and a backend     *)
(* that never replies is the second step never happening.  The library     *)
(* calls of the pipeline are the library's own steps, taken in slot 1.     *)
(***************************************************************************)
MaxAskQueries == 2     \* rows of ask_queries written by askSPM
MaxExchanges == 3      \* exchanges a session keeps
NumSessions == 3       \* session tokens

SessionTokens == 1..NumSessions

\* the session of the requests of a run in which all come from one client
OneSession == 1

\* no session holds a message
NoHistory == [sessionToken \in SessionTokens |-> <<>>]

SessionTtl == 1        \* the time a session lives, in ticks of the clock

\* a row of conversation_sessions is "stored" from its creation to its
\* deletion; a token no row has had yet is "none", and the token of a row
\* that was deleted is "deleted", for no later row to get it again
NoSession == [status |-> "none", expiresAt |-> 0]
NoSessions == [sessionToken \in SessionTokens |-> NoSession]

\* every token names a session created so late that no request outlives it
LiveSessions ==
  [sessionToken \in SessionTokens |-> [status |-> "stored", expiresAt |-> MaxClock + SessionTtl]]

\* the ask_queries row logs a stored answer, which no prompt produced
NoPrompt == [session |-> NoId, history |-> <<>>]

Backends == <<"gateway", "ollama", "openai">>

\* the backend's reply: content, a success without content, or a failure
\* (a status that is not ok, a network error, a body that is not the JSON
\* expected)
Replies == {"content", "empty", "error"}

\* choices[0]?.message?.content || 'No response generated'
NoResponseGenerated == "No response generated"

\* the AbortSignal of each outgoing call, in ms; Null where the call has
\* none.  The OpenAI client is constructed with its defaults, which abort
\* a call after ten minutes.
CallTimeoutMs(call) ==
  CASE call = "probe"   -> 2000
    [] call = "gateway" -> Null
    [] call = "ollama"  -> Null
    [] call = "openai"  -> 600000

NoMatch == [id |-> NoId]
NoLlm == [provider |-> "none"]
NoResult == [status |-> 0]
RequestFailed == [status |-> 500, error |-> "AskSPM request failed"]

\* the query field of a request body, as the JSON value it holds: body is
\* the field received and embeddings the embedding requests made for it
Undefined == [type |-> "undefined", value |-> ""]
JsonString(text) == [type |-> "string", value |-> text]
JsonNumber(digits) == [type |-> "number", value |-> digits]
Truthy(v) ==
  \/ v.type = "number" /\ v.value # "0"
  \/ v.type = "string" /\ v.value # ""
QueryFields == {Undefined, JsonString(""), JsonNumber("0"), JsonNumber("42")}

\* if (!body.query || typeof body.query !== 'string'): the blocking route and
\* the streaming route
QueryAccepted(v) == Truthy(v) /\ v.type = "string"
\* if (!body.query): the self-contained streaming route
EdgeQueryAccepted(v) == Truthy(v)

QueryRequired == [status |-> 400, error |-> "Query is required"]

\* the search options of a request body: the fields it may hold beside the
\* query, each as the JSON value received, and the arguments of the
\* knowledge-base search made for the request
NoOptions ==
  [topK |-> Undefined, threshold |-> Undefined, similarityThreshold |-> Undefined]
SearchOptions ==
  {NoOptions,
   [NoOptions EXCEPT !.topK = JsonNumber("2"), !.similarityThreshold = JsonNumber("0.9")],
   [NoOptions EXCEPT !.topK = JsonNumber("0"), !.threshold = JsonNumber("0.6")]}
NoSearch == [topK |-> Undefined, threshold |-> Undefined]

\* a || b
Or(a, b) == IF Truthy(a) THEN a ELSE b

\* askSPM({query: body.query, topK: body.topK || 5,
\*         similarityThreshold: body.threshold || 0.3, ...})
RouteRequest(body) ==
  [topK |-> Or(body.topK, JsonNumber("5")),
   similarityThreshold |-> Or(body.threshold, JsonNumber("0.3"))]

\* const topK = request.topK || 5;
\* const threshold = request.similarityThreshold || 0.3;
\* searchKnowledgeBase(queryEmbedding, topK, threshold)
SearchArguments(request) ==
  [topK |-> Or(request.topK, JsonNumber("5")),
   threshold |-> Or(request.similarityThreshold, JsonNumber("0.3"))]

StreamIdle ==
  [pc |-> "idle", route |-> "none", query |-> "", match |-> NoMatch, searches |-> 0,
   attempts |-> <<>>, events |-> <<>>, channel |-> "none", todo |-> <<>>,
   fullContent |-> "", http |-> 0, failed |-> FALSE,
   body |-> Undefined, embeddings |-> 0]

\* attempts and status are the history of a call of generateLLMResponse:
\* the backends called, in the order of the calls, and what became of each
Untried == [b \in {"gateway", "ollama", "openai"} |-> "untried"]

\* a session that is full keeps what it has and drops the new exchange
AppendExchangeKeepOldest(h, query, answer) ==
  IF Len(h) < MaxExchanges THEN Append(h, [query |-> query, answer |-> answer]) ELSE h
\* addMessageExchange: the session keeps its last MaxExchanges exchanges
AppendExchange(h, query, answer) ==
  LET all == Append(h, [query |-> query, answer |-> answer])
  IN  IF Len(all) <= MaxExchanges THEN all
      ELSE SubSeq(all, Len(all) - MaxExchanges + 1, Len(all))

(***************************************************************************)
(* The conversation of a session.  said is the record of the calls of      *)
(* addMessageExchange, oldest first; history is what the session holds.    *)
(***************************************************************************)
MaxSaid == 5

RECURSIVE getConversationHistory(_)
\* the messages of the session, each with its role, oldest first
getConversationHistory(h) ==
  IF h = <<>> THEN <<>>
  ELSE <<[role |-> "user", content |-> Head(h).query],
         [role |-> "assistant", content |-> Head(h).answer]>>
       \o getConversationHistory(Tail(h))

Answers == {GeneratedAnswer(q) : q \in Queries}

\* a session is read as if it had no expiry
NeverExpired(session, at) == FALSE
\* the read-side check: the expiry of the session has passed
Expired(session, at) == session.expiresAt < at

\* the token names a session that is stored and has not expired
Live(sessionToken) ==
  /\ sessionToken \in SessionTokens
  /\ sessions[sessionToken].status = "stored"
  /\ ~Expired(sessions[sessionToken], now)

NewSession == [status |-> "stored", expiresAt |-> now + SessionTtl]

\* a new row under a token that no row has had and that is not the
\* request's token
Mints(requestToken, new) ==
  /\ new # requestToken
  /\ sessions[new].status = "none"
  /\ sessions' = [sessions EXCEPT ![new] = NewSession]
  /\ history' = [history EXCEPT ![new] = <<>>]
  /\ fn' = [op |-> "getOrCreateSession", pc |-> "returned", sessionToken |-> requestToken,
            result |-> [sessionToken |-> new, expiresAt |-> NewSession.expiresAt]]

\* createSession(userId): the "New Chat" button
createSession ==
  /\ \E new \in SessionTokens : Mints(NoId, new)
  /\ UNCHANGED <<library, feedback, now, req, response, applied, config, ask,
                 askQueries, stream, chunks, schema, runs, said, prompts>>

\* getOrCreateSession(sessionToken, userId): the session of the token if it
\* is stored and has not expired, a new session otherwise
getOrCreateSession(sessionToken) ==
  /\ IF Live(sessionToken)
       THEN /\ fn' = [op |-> "getOrCreateSession", pc |-> "returned",
                      sessionToken |-> sessionToken,
                      result |-> [sessionToken |-> sessionToken,
                                  expiresAt |-> sessions[sessionToken].expiresAt]]
            /\ UNCHANGED <<sessions, history>>
       ELSE \E new \in SessionTokens : Mints(sessionToken, new)
  /\ UNCHANGED <<library, feedback, now, req, response, applied, config, ask,
                 askQueries, stream, chunks, schema, runs, said, prompts>>

\* clearSession(sessionToken): the row is deleted
clearSession(sessionToken) ==
  /\ sessions[sessionToken].status = "stored"
  /\ sessions' = [sessions EXCEPT ![sessionToken].status = "deleted"]
  /\ history' = [history EXCEPT ![sessionToken] = <<>>]
  /\ UNCHANGED <<library, feedback, now, req, response, applied, config, ask,
                 askQueries, stream, chunks, schema, runs, fn, said, prompts>>

\* cleanupExpiredSessions(): every row whose expiry has passed is deleted
cleanupExpiredSessions ==
  LET swept == {t \in SessionTokens :
                  sessions[t].status = "stored" /\ sessions[t].expiresAt < now}
  IN  /\ sessions' = [t \in SessionTokens |->
                        IF t \in swept THEN [sessions[t] EXCEPT !.status = "deleted"]
                        ELSE sessions[t]]
      /\ history' = [t \in SessionTokens |-> IF t \in swept THEN <<>> ELSE history[t]]
      /\ fn' = [op |-> "cleanupExpiredSessions", pc |-> "returned",
                result |-> Cardinality(swept)]
      /\ UNCHANGED <<library, feedback, now, req, response, applied, config, ask,
                     askQueries, stream, chunks, schema, runs, said, prompts>>

\* time passes
ClockTick ==
  /\ now < MaxClock
  /\ now' = now + 1
  /\ UNCHANGED <<library, feedback, req, response, applied, pipeVars, kbVars>>

\* what getConversationHistory(sessionToken) answers: the messages of the
\* session, and nothing for a token without a row or with an expired one
ConversationHistory(sessionToken) ==
  IF Live(sessionToken) THEN getConversationHistory(history[sessionToken]) ELSE <<>>

addMessageExchange(sessionToken, query, answer) ==
  /\ Len(said) < MaxSaid
  /\ sessions[sessionToken].status = "stored"
  /\ history' = [history EXCEPT ![sessionToken] = AppendExchange(@, query, answer)]
  /\ said' = Append(said, [query |-> query, answer |-> answer])
  /\ UNCHANGED <<library, feedback, now, req, response, applied, config, ask,
                 askQueries, stream, chunks, schema, runs, fn, sessions, prompts>>

getConversationHistoryReturns(sessionToken) ==
  /\ fn' = [op |-> "getConversationHistory", pc |-> "returned",
            sessionToken |-> sessionToken,
            result |-> ConversationHistory(sessionToken)]
  /\ UNCHANGED <<library, feedback, now, req, response, applied, pipeVars,
                 chunks, schema, runs, said, sessions, prompts>>

AskIdle ==
  [pc |-> "idle", query |-> "", match |-> NoMatch, searches |-> 0,
   attempts |-> <<>>, status |-> Untried, llm |-> NoLlm, queryId |-> NoId,
   libraryAnswerId |-> NoId, result |-> NoResult,
   body |-> Undefined, embeddings |-> 0, options |-> NoOptions, kb |-> NoSearch,
   stages |-> <<>>, session |-> NoId, conversationHistory |-> <<>>]

\* the route answers what askSPM returns, and 500 when askSPM throws
Returns(a, result) == [a EXCEPT !.pc = "done", !.result = result]
Throws(a) == Returns(a, RequestFailed)

\* a request is in flight
InFlight == ask.pc \notin {"idle", "done"} \/ stream.pc \notin {"idle", "end"}

\* a request starts when the one before it has been answered; ask and stream
\* hold the last request and its answer until then
AskStart(q, options, sessionToken) ==
  /\ ~InFlight
  /\ askQueries < MaxAskQueries
  /\ QueryAccepted(JsonString(q))
  /\ ask' = [AskIdle EXCEPT !.pc = "lookup", !.query = q, !.body = JsonString(q),
                            !.embeddings = 1, !.options = options,
                            !.stages = <<"session", "embedding">>,
                            !.session = sessionToken,
                            !.conversationHistory = ConversationHistory(sessionToken)]
  /\ stream' = StreamIdle
  /\ response' = Silent
  /\ UNCHANGED <<library, feedback, now, req, applied, config, history, askQueries, kbVars>>

\* the blocking route answers 400 before it calls askSPM
AskReject(v) ==
  /\ ~InFlight
  /\ ~QueryAccepted(v)
  /\ ask' = [Returns(AskIdle, QueryRequired) EXCEPT !.body = v]
  /\ stream' = StreamIdle
  /\ response' = Silent
  /\ UNCHANGED <<library, feedback, now, req, applied, config, history, askQueries, kbVars>>

\* searchAnswerLibrary(embeddingResult.embeddings[0]): the defaults apply
AskSearchSelect ==
  /\ ask.pc = "lookup"
  /\ response = Silent
  /\ SearchSelect(1, ask.query, Null)

AskSearchUpdate ==
  /\ ask.pc = "lookup"
  /\ SearchUpdate(1)

\* a hit goes on to return the stored answer without search or generation
AlwaysGenerate(result) == "kb"

\* if (libraryMatch) { ... return } else the knowledge base is searched
AfterLookup(result) == IF result.hit THEN "logHit" ELSE "kb"

AskLibraryMatch ==
  /\ ask.pc = "lookup"
  /\ response.op = "lookup"
  /\ ask' = [ask EXCEPT !.pc = AfterLookup(response),
                        !.match = IF response.hit THEN response.result ELSE NoMatch,
                        !.stages = Append(@, "library")]
  /\ response' = Silent
  /\ UNCHANGED <<library, feedback, now, req, applied, config, history, askQueries, stream, kbVars>>

\* the messages generateLLMResponse has put between the system prompt and
\* the query, and the session they are of
PromptOf(a) ==
  IF a.llm = NoLlm THEN NoPrompt
  ELSE [session |-> a.session, history |-> a.conversationHistory]

\* prisma.askQuery.create on either path
AskLogQuery ==
  /\ ask.pc \in {"logHit", "log"}
  /\ askQueries' = askQueries + 1
  /\ ask' = [ask EXCEPT !.pc = IF ask.pc = "logHit" THEN "hitHistory" ELSE "save",
                        !.queryId = askQueries + 1,
                        !.stages = Append(@, "log")]
  /\ prompts' = Append(prompts, PromptOf(ask))
  /\ UNCHANGED <<library, feedback, now, req, response, applied, config, history, stream,
                 chunks, schema, runs, fn, said, sessions>>

HitResult(a) ==
  [status |-> 200, queryId |-> a.queryId, answer |-> a.match.answerText,
   fromLibrary |-> TRUE, libraryAnswerId |-> a.match.id]

MissResult(a) ==
  [status |-> 200, queryId |-> a.queryId, answer |-> a.llm.answer,
   fromLibrary |-> FALSE, libraryAnswerId |-> a.libraryAnswerId]

\* await addMessageExchange(...), outside any try: the store takes the
\* exchange, or the call throws and askSPM with it
AskAddMessageExchange(stored) ==
  /\ ask.pc \in {"hitHistory", "history"}
  /\ LET answer == IF ask.pc = "hitHistory" THEN ask.match.answerText ELSE ask.llm.answer
         result == IF ask.pc = "hitHistory" THEN HitResult(ask) ELSE MissResult(ask)
     IN  IF stored
         THEN /\ history' = [history EXCEPT
                               ![ask.session] = AppendExchange(@, ask.query, answer)]
              /\ ask' = Returns([ask EXCEPT !.stages = Append(@, "history")], result)
         ELSE /\ UNCHANGED history
              /\ ask' = Throws(ask)
  /\ UNCHANGED <<library, feedback, now, req, response, applied, config, askQueries, stream, kbVars>>

AskSearchKnowledgeBase ==
  /\ ask.pc = "kb"
  /\ ask' = [ask EXCEPT !.pc = "gateway", !.searches = @ + 1,
                        !.kb = SearchArguments(RouteRequest(ask.options)),
                        !.stages = Append(@, "search")]
  /\ UNCHANGED <<library, feedback, now, req, response, applied, config, history, askQueries, stream, kbVars>>

\* generateLLMResponse ----------------------------------------------------

Configured(backend) ==
  CASE backend = "gateway" -> config.gateway
    [] backend = "openai"  -> config.openai

Pending(backend) == backend \o "Pending"

\* a backend that failed is asked again
RetrySameBackend(backend) == backend

\* where the function goes on when a backend failed or is not configured
NextBackend(backend) ==
  CASE backend = "gateway" -> "probe"
    [] backend = "ollama"  -> "openai"

\* without a key the last backend answers the placeholder
OpenAIUnavailableFallback(a) ==
  [a EXCEPT !.pc = "log", !.llm = [provider |-> "openai", answer |-> NoResponseGenerated]]

\* throw new Error('No LLM provider available ...')
OpenAIUnavailable(a) == Throws(a)

\* the request to a backend goes out
AskCall(backend) ==
  /\ ask.pc = backend
  /\ ask' = CASE backend = "gateway" /\ ~Configured(backend) ->
                   [ask EXCEPT !.pc = NextBackend(backend),
                               !.status[backend] = "unavailable"]
              [] backend = "openai" /\ ~Configured(backend) ->
                   OpenAIUnavailable([ask EXCEPT !.status[backend] = "unavailable"])
              [] OTHER -> [ask EXCEPT !.pc = Pending(backend),
                                      !.attempts = Append(@, backend),
                                      !.status[backend] = "pending"]
  /\ UNCHANGED <<library, feedback, now, req, response, applied, config, history, askQueries, stream, kbVars>>

\* the text a backend generates for the query
BackendContent(backend, q) == GeneratedAnswer(q)

\* the answer taken from a successful reply
AnswerOf(backend, reply, q) ==
  CASE reply = "content" -> BackendContent(backend, q)
    [] reply = "empty" /\ backend = "ollama" -> ""
    [] reply = "empty" /\ backend # "ollama" -> NoResponseGenerated

\* the reply of a backend comes in
AskReply(backend, reply) ==
  /\ ask.pc = Pending(backend)
  /\ ask' = IF reply = "error"
            THEN IF backend = "openai" THEN Throws([ask EXCEPT !.status[backend] = "failed"])
                 ELSE [ask EXCEPT !.pc = NextBackend(backend),
                                  !.status[backend] = "failed"]
            ELSE [ask EXCEPT !.pc = "log",
                             !.status[backend] = "answered",
                             !.llm = [provider |-> backend,
                                      answer |-> AnswerOf(backend, reply, ask.query)],
                             !.stages = Append(@, "generate")]
  /\ UNCHANGED <<library, feedback, now, req, response, applied, config, history, askQueries, stream, kbVars>>

\* isOllamaAvailable: GET /api/tags
AskProbe ==
  /\ ask.pc = "probe"
  /\ ask' = [ask EXCEPT !.pc = Pending("probe")]
  /\ UNCHANGED <<library, feedback, now, req, response, applied, config, history, askQueries, stream, kbVars>>

AskProbeReply(ok) ==
  /\ ask.pc = Pending("probe")
  /\ ask' = IF ok THEN [ask EXCEPT !.pc = "ollama"]
            ELSE [ask EXCEPT !.pc = NextBackend("ollama"), !.status["ollama"] = "unavailable"]
  /\ UNCHANGED <<library, feedback, now, req, response, applied, config, history, askQueries, stream, kbVars>>

Calls == {"probe", "gateway", "ollama", "openai"}

\* the signal of a call aborts it: the call fails as on a network error
AskTimeout(call) ==
  /\ ask.pc = Pending(call)
  /\ CallTimeoutMs(call) # Null
  /\ ask' = CASE call = "probe"  -> [ask EXCEPT !.pc = NextBackend("ollama"),
                                                !.status["ollama"] = "unavailable"]
              [] call = "openai" -> Throws([ask EXCEPT !.status[call] = "failed"])
              [] OTHER           -> [ask EXCEPT !.pc = NextBackend(call),
                                                !.status[call] = "failed"]
  /\ UNCHANGED <<library, feedback, now, req, response, applied, config, history, askQueries, stream, kbVars>>

\* the id of the first ask_queries row in the place of queryRecord.id
FirstQueryRecordId(a) == QueryRecordId(1)

\* sourceQueryId: queryRecord.id, the row askSPM has just created
AskSourceQueryId(a) == QueryRecordId(a.queryId)

\* saveToAnswerLibrary({... answerText: llmResult.answer, sourceQueryId: queryRecord.id})
AskSave ==
  /\ ask.pc = "save"
  /\ response = Silent
  /\ saveToAnswerLibrary(1, SaveRequest(ask.query, ask.llm.answer, AskSourceQueryId(ask)))

StoreUnavailable == [op |-> "save", error |-> "store unavailable"]

\* the store does not take the INSERT
SaveFails ==
  /\ ask.pc = "save" \/ stream.pc = "save"
  /\ response = Silent
  /\ response' = StoreUnavailable
  /\ UNCHANGED <<library, feedback, now, req, applied, pipeVars, kbVars>>

\* try { libraryAnswerId = await saveToAnswerLibrary(...) } catch { warn }
AskSaved ==
  /\ ask.pc = "save"
  /\ response.op = "save"
  /\ ask' = [ask EXCEPT !.pc = "history",
                        !.libraryAnswerId = IF "id" \in DOMAIN response
                                            THEN response.id ELSE NoId,
                        !.stages = Append(@, "save")]
  /\ response' = Silent
  /\ UNCHANGED <<library, feedback, now, req, applied, config, history, askQueries, stream, kbVars>>

(***************************************************************************)
(* The query pipeline, streaming.  The route that runs the pipeline itself *)
(* ("edge") is modelled statement by statement; the route that forwards    *)
(* the events of the askSPMStream generator ("node") is its ReadableStream *)
(* callback around a generator that yields the events of a response in     *)
(* their order and may throw at any point.  The channel of a response is   *)
(* "open" from the moment the Response is returned, "closed" once the      *)
(* controller closed it and "cancelled" once the client went away; an      *)
(* enqueue on a channel that is not open throws.  The field failed records *)
(* that the response failed after its channel was opened: the backend's    *)
(* body could not be read, a read was rejected, or the generator threw.    *)
(***************************************************************************)
Routes == {"edge", "node"}

Metadata(fromLibrary, libraryAnswerId) ==
  [type |-> "metadata", fromLibrary |-> fromLibrary, libraryAnswerId |-> libraryAnswerId]
Content(content) == [type |-> "content", content |-> content]
Done == [type |-> "done"]
ErrorEvent == [type |-> "error", message |-> "Unknown error"]

\* text.split(' ')
Words(text) ==
  CASE text = "a clawback is ..."         -> <<"a", "clawback", "is", "...">>
    [] text = "clawback policies are ..." -> <<"clawback", "policies", "are", "...">>
    [] text = NoResponseGenerated         -> <<"No", "response", "generated">>
    [] text = ""                          -> <<"">>

\* words.join(' ')
RECURSIVE Join(_)
Join(words) ==
  IF words = <<>> THEN ""
  ELSE IF Len(words) = 1 THEN Head(words)
  ELSE Head(words) \o " " \o Join(Tail(words))

WordsPerChunk == 3

\* words.slice(index, index + 3).join(' ') + ' '
Chunk(words) == Join(SubSeq(words, 1, IF Len(words) < WordsPerChunk THEN Len(words) ELSE WordsPerChunk)) \o " "

Rest(words) == IF Len(words) <= WordsPerChunk THEN <<>> ELSE SubSeq(words, WordsPerChunk + 1, Len(words))

\* the delta.content fragments of the backend's token stream for the query
BackendDeltas(q) ==
  CASE q = "clawback"  -> <<"a clawback ", "is ...">>
    [] q = "clawbacks" -> <<"clawback policies ", "are ...">>

StreamStarted(route, q) ==
  [StreamIdle EXCEPT !.pc = "lookup", !.route = route, !.query = q,
                     !.body = JsonString(q), !.embeddings = 1]

StreamStart(q) ==
  /\ ~InFlight
  /\ stream' = StreamStarted("edge", q)
  /\ ask' = AskIdle
  /\ response' = Silent
  /\ UNCHANGED <<library, feedback, now, req, applied, config, history, askQueries, kbVars>>

\* the JSON answer of a request that never opens a channel
JsonError(s) == [s EXCEPT !.pc = "end", !.http = 500]

\* the self-contained streaming route answers 400 to a query field that is
\* missing or falsy
StreamReject(v) ==
  /\ ~InFlight
  /\ ~EdgeQueryAccepted(v)
  /\ stream' = [StreamIdle EXCEPT !.pc = "end", !.route = "edge", !.http = 400,
                                  !.body = v]
  /\ ask' = AskIdle
  /\ response' = Silent
  /\ UNCHANGED <<library, feedback, now, req, applied, config, history, askQueries, kbVars>>

\* and passes any other one to generateEmbeddings([body.query]); the
\* embedding provider answers a prompt that is not text with an error, which
\* the route's catch turns into 500
StreamStartUnchecked(v) ==
  /\ ~InFlight
  /\ EdgeQueryAccepted(v)
  /\ v.type # "string"
  /\ stream' = JsonError([StreamIdle EXCEPT !.route = "edge", !.body = v,
                                            !.embeddings = 1])
  /\ ask' = AskIdle
  /\ response' = Silent
  /\ UNCHANGED <<library, feedback, now, req, applied, config, history, askQueries, kbVars>>

StreamSearchSelect ==
  /\ stream.pc = "lookup"
  /\ response = Silent
  /\ SearchSelect(1, stream.query, Null)

StreamSearchUpdate ==
  /\ stream.pc = "lookup"
  /\ SearchUpdate(1)

\* if (libraryMatch) the Response carries the replay: its start callback
\* enqueues the metadata event
StreamLibraryMatch ==
  /\ stream.pc = "lookup"
  /\ response.op = "lookup"
  /\ stream' = IF AfterLookup(response) = "logHit"
               THEN [stream EXCEPT !.pc = "replay", !.match = response.result,
                                   !.http = 200, !.channel = "open",
                                   !.events = <<Metadata(TRUE, response.result.id)>>,
                                   !.todo = Words(response.result.answerText)]
               ELSE [stream EXCEPT !.pc = "kb"]
  /\ response' = Silent
  /\ UNCHANGED <<library, feedback, now, req, applied, config, ask, history, askQueries, kbVars>>

\* sendWord: the next word-group, or done and close
StreamSendWord ==
  /\ stream.pc = "replay"
  /\ stream' = IF stream.channel # "open" THEN [stream EXCEPT !.pc = "end"]
               ELSE IF stream.todo # <<>>
               THEN [stream EXCEPT !.events = Append(@, Content(Chunk(stream.todo))),
                                   !.todo = Rest(@)]
               ELSE [stream EXCEPT !.events = Append(@, Done), !.channel = "closed",
                                   !.pc = "end"]
  /\ UNCHANGED <<library, feedback, now, req, response, applied, config, ask, history, askQueries, kbVars>>

StreamSearchKnowledgeBase ==
  /\ stream.pc = "kb"
  /\ stream' = [stream EXCEPT !.pc = "gateway", !.searches = @ + 1]
  /\ UNCHANGED <<library, feedback, now, req, response, applied, config, ask, history, askQueries, kbVars>>

\* fetch(gatewayUrl/api/v1/chat, {... stream: true})
StreamGatewayCall ==
  /\ stream.pc = "gateway"
  /\ stream' = IF Configured("gateway")
               THEN [stream EXCEPT !.pc = Pending("gateway"), !.attempts = Append(@, "gateway")]
               ELSE JsonError(stream)
  /\ UNCHANGED <<library, feedback, now, req, response, applied, config, ask, history, askQueries, kbVars>>

\* the reply to the fetch: a body to read, a success without a body, a
\* status that is not ok, or the fetch rejecting
StreamReplies == {"body", "nobody", "status", "network"}

StreamGatewayReply(reply) ==
  /\ stream.pc = Pending("gateway")
  /\ stream' =
       CASE reply \in {"status", "network"} -> JsonError(stream)
         [] reply = "body" ->
              [stream EXCEPT !.pc = "reading", !.http = 200, !.channel = "open",
                             !.events = <<Metadata(FALSE, NoId)>>,
                             !.todo = BackendDeltas(stream.query)]
         [] reply = "nobody" ->
              [stream EXCEPT !.pc = "end", !.http = 200, !.channel = "closed",
                             !.events = <<Metadata(FALSE, NoId)>>, !.failed = TRUE]
  /\ UNCHANGED <<library, feedback, now, req, response, applied, config, ask, history, askQueries, kbVars>>

\* finally { controller.close() }
Closed(s) == [s EXCEPT !.pc = "end",
                       !.channel = IF s.channel = "open" THEN "closed" ELSE s.channel]

\* what reader.read() resolves to: the next fragment, the end of the body,
\* or a rejection
Reads == {"delta", "end", "error"}

StreamRead(read) ==
  /\ stream.pc = "reading"
  /\ read = "delta" => stream.todo # <<>>
  /\ stream' =
       CASE read = "delta" /\ stream.channel = "open" ->
              [stream EXCEPT !.fullContent = @ \o Head(stream.todo),
                             !.events = Append(@, Content(Head(stream.todo))),
                             !.todo = Tail(@)]
         [] read = "delta" /\ stream.channel # "open" -> Closed(stream)
         [] read = "end"   -> [stream EXCEPT !.pc = "save"]
         [] read = "error" -> Closed([stream EXCEPT !.failed = TRUE])
  /\ UNCHANGED <<library, feedback, now, req, response, applied, config, ask, history, askQueries, kbVars>>

\* saveToAnswerLibrary({... answerText: fullContent, sourceQueryId: 'stream-' + Date.now()})
StreamSave ==
  /\ stream.pc = "save"
  /\ response = Silent
  /\ saveToAnswerLibrary(1, SaveRequest(stream.query, stream.fullContent, StreamSourceQueryId(now)))

\* .catch((err) => console.warn(...))
StreamSaved ==
  /\ stream.pc = "save"
  /\ response.op = "save"
  /\ stream' = [stream EXCEPT !.pc = "done"]
  /\ response' = Silent
  /\ UNCHANGED <<library, feedback, now, req, applied, config, ask, history, askQueries, kbVars>>

\* the done event, then finally { controller.close() }
StreamDone ==
  /\ stream.pc = "done"
  /\ stream' = IF stream.channel = "open"
               THEN Closed([stream EXCEPT !.events = Append(@, Done)])
               ELSE Closed(stream)
  /\ UNCHANGED <<library, feedback, now, req, response, applied, config, ask, history, askQueries, kbVars>>

\* the client disconnects
StreamCancel ==
  /\ stream.channel = "open"
  /\ stream' = [stream EXCEPT !.channel = "cancelled"]
  /\ UNCHANGED <<library, feedback, now, req, response, applied, config, ask, history, askQueries, kbVars>>

\* the node route: the Response is returned at once, its start callback
\* creates the generator
RouteStart(q) ==
  /\ ~InFlight
  /\ stream' = [StreamStarted("node", q) EXCEPT !.pc = "generator", !.http = 200,
                                                !.channel = "open",
                                                !.todo = BackendDeltas(q)]
  /\ ask' = AskIdle
  /\ response' = Silent
  /\ UNCHANGED <<library, feedback, now, req, applied, config, history, askQueries, kbVars>>

RouteReject(v) ==
  /\ ~InFlight
  /\ ~QueryAccepted(v)
  /\ stream' = [StreamIdle EXCEPT !.pc = "end", !.route = "node", !.http = 400,
                                  !.body = v]
  /\ ask' = AskIdle
  /\ response' = Silent
  /\ UNCHANGED <<library, feedback, now, req, applied, config, history, askQueries, kbVars>>

\* the next event of the generator: metadata, the fragments, done
askSPMStream(events, todo) ==
  IF events = <<>> THEN Metadata(FALSE, NoId)
  ELSE IF todo # <<>> THEN Content(Head(todo))
  ELSE Done

\* for await (const event of generator) controller.enqueue(...); an enqueue
\* that throws is caught, the enqueue of the error event throws again, and
\* the channel is left as it is
RouteForward ==
  /\ stream.pc = "generator"
  /\ LET event == askSPMStream(stream.events, stream.todo)
     IN  stream' = IF stream.channel # "open" THEN Closed(stream)
                   ELSE [stream EXCEPT !.events = Append(@, event),
                                       !.todo = IF event.type = "content" THEN Tail(@) ELSE @,
                                       !.pc = IF event = Done THEN "return" ELSE @]
  /\ UNCHANGED <<library, feedback, now, req, response, applied, config, ask, history, askQueries, kbVars>>

\* the generator returns: finally { controller.close() }
RouteReturn ==
  /\ stream.pc = "return"
  /\ stream' = Closed(stream)
  /\ UNCHANGED <<library, feedback, now, req, response, applied, config, ask, history, askQueries, kbVars>>

\* the generator throws after its first event: catch { enqueue the error
\* event } finally { close }
RouteGeneratorThrows ==
  /\ stream.pc = "generator"
  /\ stream.events # <<>>
  /\ stream' = IF stream.channel = "open"
               THEN Closed([stream EXCEPT !.events = Append(@, ErrorEvent), !.failed = TRUE])
               ELSE Closed([stream EXCEPT !.failed = TRUE])
  /\ UNCHANGED <<library, feedback, now, req, response, applied, config, ask, history, askQueries, kbVars>>

Configs == [gateway : BOOLEAN, openai : BOOLEAN]

\* no knowledge base, no ingestion run, no function call, no session
KbIdle ==
  /\ chunks = <<>>
  /\ schema = [embedding |-> TARGET_DIMS]
  /\ runs = [r \in RunIds |-> RunIdle]
  /\ fn = NoCall
  /\ said = <<>>
  /\ prompts = <<>>

PipelineInit ==
  /\ KbIdle
  /\ sessions = LiveSessions
  /\ library = <<>>
  /\ feedback = EmptyBag
  /\ now = 0
  /\ req = [p \in Slots |-> Idle]
  /\ response = Silent
  /\ applied = [e \in EntryIds |-> [hits |-> 0, up |-> 0, down |-> 0]]
  /\ config \in Configs
  /\ ask = AskIdle
  /\ history = NoHistory
  /\ askQueries = 0
  /\ stream = StreamIdle

PipelineNext ==
  \/ \E q \in Queries, options \in SearchOptions : AskStart(q, options, OneSession)
  \/ \E v \in QueryFields : AskReject(v)
  \/ AskSearchSelect
  \/ AskSearchUpdate
  \/ AskLibraryMatch
  \/ AskLogQuery
  \/ \E stored \in BOOLEAN : AskAddMessageExchange(stored)
  \/ AskSearchKnowledgeBase
  \/ \E backend \in {"gateway", "ollama", "openai"} : AskCall(backend)
  \/ \E backend \in {"gateway", "ollama", "openai"}, reply \in Replies : AskReply(backend, reply)
  \/ AskProbe
  \/ \E ok \in BOOLEAN : AskProbeReply(ok)
  \/ \E call \in Calls : AskTimeout(call)
  \/ AskSave
  \/ SaveFails
  \/ AskSaved
  \/ \E q \in Queries : StreamStart(q)
  \/ \E v \in QueryFields : StreamReject(v)
  \/ \E v \in QueryFields : StreamStartUnchecked(v)
  \/ StreamSearchSelect
  \/ StreamSearchUpdate
  \/ StreamLibraryMatch
  \/ StreamSendWord
  \/ StreamSearchKnowledgeBase
  \/ StreamGatewayCall
  \/ \E reply \in StreamReplies : StreamGatewayReply(reply)
  \/ \E read \in Reads : StreamRead(read)
  \/ StreamSave
  \/ StreamSaved
  \/ StreamDone
  \/ StreamCancel
  \/ \E q \in Queries : RouteStart(q)
  \/ \E v \in QueryFields : RouteReject(v)
  \/ RouteForward
  \/ RouteReturn
  \/ RouteGeneratorThrows

PipelineSpec == PipelineInit /\ [][PipelineNext]_vars

(***************************************************************************)
(* The initial state: the library holds the answer to "clawback", saved    *)
(* by an earlier miss, and every earlier query has got a thumbs_up for it  *)
(* from every address, one request after the other.                        *)
(***************************************************************************)
RECURSIVE Voted(_, _, _)
Voted(row, n, feedbackType) ==
  IF n = 0 THEN row
  ELSE LET before == Voted(row, n - 1, feedbackType)
       IN  UpdatedRow(before,
                      [thumbsUpCount |-> before.thumbs_up_count,
                       thumbsDownCount |-> before.thumbs_down_count],
                      feedbackType)

Init ==
  /\ KbIdle
  /\ sessions = NoSessions
  /\ library = <<Voted(NewEntry("clawback", RawEmbedding("clawback"), GeneratedAnswer("clawback"),
                          QueryRecordId(1)),
                       InitialVotes, "thumbs_up")>>
  /\ feedback = SetToBag({[queryId |-> q, answerLibraryId |-> 1,
                           feedbackType |-> "thumbs_up", ipAddress |-> ip] :
                             q \in EarlierQueryIds, ip \in Ips})
  /\ now = 0
  /\ req = [p \in Slots |-> Idle]
  /\ response = Silent
  /\ applied = [e \in EntryIds |->
                  [hits |-> 0, up |-> IF e = 1 THEN InitialVotes ELSE 0, down |-> 0]]
  /\ config = [gateway |-> TRUE, openai |-> TRUE]
  /\ ask = AskIdle
  /\ history = NoHistory
  /\ askQueries = 0
  /\ stream = StreamIdle

Next ==
  \/ \E p \in Slots, q \in Queries, id \in SourceQueryIds :
       saveToAnswerLibrary(p, SaveRequest(q, GeneratedAnswer(q), id))
  \/ \E p \in Slots, q \in Queries, t \in Thresholds : SearchSelect(p, q, t)
  \/ \E p \in Slots : SearchUpdate(p)
  \/ \E p \in Slots, q \in QueryIds, ip \in Ips, e \in {NoId} \cup EntryIds, t \in FeedbackTypes :
       FeedbackCheck(p, q, ip, e, t)
  \/ \E p \in Slots : FeedbackCreate(p)
  \/ \E p \in Slots : ConfidenceRead(p)
  \/ \E p \in Slots : ConfidenceWrite(p)
  \/ \E p \in Slots : getLibraryStats(p)

Spec == Init /\ [][Next]_vars

(***************************************************************************)
(* The exported functions on their own: one call, of arguments drawn from  *)
(* the sets above, and for calculateConfidence the calls that follow it    *)
(* as votes come in.                                                        *)
(***************************************************************************)
FunctionInit ==
  /\ library = <<>>
  /\ feedback = EmptyBag
  /\ now = 0
  /\ req = [p \in Slots |-> Idle]
  /\ response = Silent
  /\ applied = [e \in EntryIds |-> [hits |-> 0, up |-> 0, down |-> 0]]
  /\ config = [gateway |-> TRUE, openai |-> TRUE]
  /\ ask = AskIdle
  /\ history = NoHistory
  /\ askQueries = 0
  /\ stream = StreamIdle
  /\ chunks = <<>>
  /\ schema = [embedding |-> TARGET_DIMS]
  /\ runs = [r \in RunIds |-> RunIdle]
  /\ said = <<>>
  /\ sessions = NoSessions
  /\ prompts = <<>>
  /\ fn \in NormalizeCalls \cup ConfidenceCalls

FunctionNext ==
  \/ normalizeEmbeddingReturns
  \/ calculateConfidenceReturns
  \/ \E feedbackType \in FeedbackTypes : Recalculate(feedbackType)

FunctionSpec == FunctionInit /\ [][FunctionNext]_vars

(***************************************************************************)
(* Runs of the ingestion script, one beside the other, on an empty         *)
(* knowledge base.                                                          *)
(***************************************************************************)
IngestInit ==
  /\ library = <<>>
  /\ feedback = EmptyBag
  /\ now = 0
  /\ req = [p \in Slots |-> Idle]
  /\ response = Silent
  /\ applied = [e \in EntryIds |-> [hits |-> 0, up |-> 0, down |-> 0]]
  /\ config = [gateway |-> TRUE, openai |-> TRUE]
  /\ ask = AskIdle
  /\ history = NoHistory
  /\ askQueries = 0
  /\ stream = StreamIdle
  /\ chunks = <<>>
  /\ schema \in {[embedding |-> TARGET_DIMS], [embedding |-> MigrationDims]}
  /\ runs = [r \in RunIds |-> RunIdle]
  /\ fn = NoCall
  /\ said = <<>>
  /\ sessions = NoSessions
  /\ prompts = <<>>

IngestNext ==
  \/ \E r \in RunIds : RunStart(r)
  \/ \E r \in RunIds : RunFindMany(r)
  \/ \E r \in RunIds, ok \in BOOLEAN : RunEmbeddings(r, ok)
  \/ \E r \in RunIds : RunInsert(r)

IngestSpec == IngestInit /\ [][IngestNext]_vars

(***************************************************************************)
(* Feedback on one entry that has InitialVotes votes, any number of them   *)
(* thumbs_up and the others thumbs_down, given one after the other.        *)
(***************************************************************************)
VotedEntry(ups) ==
  Voted(Voted(NewEntry("clawback", RawEmbedding("clawback"), GeneratedAnswer("clawback"),
                          QueryRecordId(1)),
              ups, "thumbs_up"),
        InitialVotes - ups, "thumbs_down")

\* the feedback records of the votes: the first ups of them are thumbs_up
VotedFeedback(ups) ==
  LET order == [q \in EarlierQueryIds, ip \in Ips |->
                  Cardinality({x \in EarlierQueryIds : x < q}) * NumIps + ip]
  IN  SetToBag({[queryId |-> q, answerLibraryId |-> 1,
                 feedbackType |-> IF order[q, ip] <= ups THEN "thumbs_up" ELSE "thumbs_down",
                 ipAddress |-> ip] : q \in EarlierQueryIds, ip \in Ips})

VoteInit ==
  /\ KbIdle
  /\ sessions = NoSessions
  /\ \E ups \in 0..InitialVotes :
       /\ library = <<VotedEntry(ups)>>
       /\ feedback = VotedFeedback(ups)
       /\ applied = [e \in EntryIds |->
                       [hits |-> 0, up |-> IF e = 1 THEN ups ELSE 0,
                        down |-> IF e = 1 THEN InitialVotes - ups ELSE 0]]
  /\ now = 0
  /\ req = [p \in Slots |-> Idle]
  /\ response = Silent
  /\ config = [gateway |-> TRUE, openai |-> TRUE]
  /\ ask = AskIdle
  /\ history = NoHistory
  /\ askQueries = 0
  /\ stream = StreamIdle

VoteNext ==
  \/ \E p \in Slots, q \in QueryIds, ip \in Ips, e \in {NoId} \cup EntryIds, t \in FeedbackTypes :
       FeedbackCheck(p, q, ip, e, t)
  \/ \E p \in Slots : FeedbackCreate(p)
  \/ \E p \in Slots : ConfidenceRead(p)
  \/ \E p \in Slots : ConfidenceWrite(p)

VoteSpec == VoteInit /\ [][VoteNext]_vars

(***************************************************************************)
(* Searches of the knowledge base while and after one run of the           *)
(* ingestion script fills it.                                               *)
(***************************************************************************)
SearchInit == IngestInit

SearchNext ==
  \/ RunStart(1)
  \/ RunFindMany(1)
  \/ \E ok \in BOOLEAN : RunEmbeddings(1, ok)
  \/ RunInsert(1)
  \/ \E queryEmbedding \in QueryEmbeddings, topK \in TopKs, threshold \in SearchThresholds :
       searchKnowledgeBaseReturns(queryEmbedding, topK, threshold)

SearchSpec == SearchInit /\ [][SearchNext]_vars

(***************************************************************************)
(* One session: exchanges are appended and the history is read.            *)
(***************************************************************************)
SessionInit == PipelineInit /\ config = [gateway |-> TRUE, openai |-> TRUE]

SessionNext ==
  \/ \E query \in Queries, answer \in Answers : addMessageExchange(OneSession, query, answer)
  \/ getConversationHistoryReturns(OneSession)

SessionSpec == SessionInit /\ [][SessionNext]_vars

(***************************************************************************)
(* Blocking requests of several sessions, one after the other.  The first  *)
(* session may hold an exchange of an earlier conversation.                *)
(***************************************************************************)
EarlierExchange == [query |-> "clawbacks", answer |-> GeneratedAnswer("clawbacks")]

IsolationInit ==
  /\ KbIdle
  /\ sessions = LiveSessions
  /\ library = <<>>
  /\ feedback = EmptyBag
  /\ now = 0
  /\ req = [p \in Slots |-> Idle]
  /\ response = Silent
  /\ applied = [e \in EntryIds |-> [hits |-> 0, up |-> 0, down |-> 0]]
  /\ config = [gateway |-> TRUE, openai |-> TRUE]
  /\ ask = AskIdle
  /\ \E earlier \in {<<>>, <<EarlierExchange>>} :
       history = [NoHistory EXCEPT ![OneSession] = earlier]
  /\ askQueries = 0
  /\ stream = StreamIdle

IsolationNext ==
  \/ \E q \in Queries, sessionToken \in SessionTokens : AskStart(q, NoOptions, sessionToken)
  \/ AskSearchSelect
  \/ AskSearchUpdate
  \/ AskLibraryMatch
  \/ AskLogQuery
  \/ \E stored \in BOOLEAN : AskAddMessageExchange(stored)
  \/ AskSearchKnowledgeBase
  \/ \E backend \in {"gateway", "ollama", "openai"} : AskCall(backend)
  \/ \E backend \in {"gateway", "ollama", "openai"}, reply \in Replies : AskReply(backend, reply)
  \/ AskProbe
  \/ \E ok \in BOOLEAN : AskProbeReply(ok)
  \/ \E call \in Calls : AskTimeout(call)
  \/ AskSave
  \/ SaveFails
  \/ AskSaved

IsolationSpec == IsolationInit /\ [][IsolationNext]_vars

(***************************************************************************)
(* The session store: sessions are created, written, read and deleted      *)
(* while time passes.                                                      *)
(***************************************************************************)
ExpiryInit ==
  /\ KbIdle
  /\ sessions = NoSessions
  /\ library = <<>>
  /\ feedback = EmptyBag
  /\ now = 0
  /\ req = [p \in Slots |-> Idle]
  /\ response = Silent
  /\ applied = [e \in EntryIds |-> [hits |-> 0, up |-> 0, down |-> 0]]
  /\ config = [gateway |-> TRUE, openai |-> TRUE]
  /\ ask = AskIdle
  /\ history = NoHistory
  /\ askQueries = 0
  /\ stream = StreamIdle

ExpiryNext ==
  \/ createSession
  \/ \E sessionToken \in {NoId} \cup SessionTokens : getOrCreateSession(sessionToken)
  \/ \E sessionToken \in SessionTokens :
       addMessageExchange(sessionToken, "clawback", GeneratedAnswer("clawback"))
  \/ \E sessionToken \in SessionTokens : getConversationHistoryReturns(sessionToken)
  \/ \E sessionToken \in SessionTokens : clearSession(sessionToken)
  \/ cleanupExpiredSessions
  \/ ClockTick

ExpirySpec == ExpiryInit /\ [][ExpiryNext]_vars


(***************************************************************************)
(* Properties.                                                             *)
(***************************************************************************)
\* the step of slot p that runs the SELECT of a lookup and finds a row
Selects(p) == req[p] = Idle /\ req'[p].op = "lookup"

\* the three conditions of a hit, on the row as it is when the SELECT runs
Eligible(row, q, t) ==
  /\ row.is_active
  /\ row.confidence_score >= DEFAULT_minConfidence
  /\ Similarity(row.query_embedding, normalizeEmbedding(RawEmbedding(q), Dim))
       >= (IF t = Null THEN DEFAULT_similarityThreshold ELSE t)

SimilarityTo(f, q) ==
  Similarity(library[f].query_embedding, normalizeEmbedding(RawEmbedding(q), Dim))

C3_UseCountExact ==
  \A e \in Ids : library[e].use_count = InitialUseCount + applied[e].hits

\* an entry has been hit, and a further lookup of it is in flight at the same
\* time as a feedback request that is about to write the same entry
C3_Witness ==
  \E e \in Ids, p \in Slots, r \in Slots :
    /\ applied[e].hits >= 1
    /\ req[p].op = "lookup" /\ req[p].match.id = e
    /\ req[r].op = "feedback" /\ req[r].pc = "write" /\ req[r].answerLibraryId = e

\* C4: the feedback counters lose no update: every entry's thumbs_up and
\* thumbs_down counts are the numbers of thumbs_up and thumbs_down votes whose
\* updateAnswerConfidence has run its update, through every interleaving.
C4_CountersExact ==
  \A e \in Ids :
    /\ library[e].thumbs_up_count = applied[e].up
    /\ library[e].thumbs_down_count = applied[e].down

\* the feedback records of a (query, address) pair
RecordsOf(queryId, ipAddress) ==
  {row \in BagToSet(feedback) : row.queryId = queryId /\ row.ipAddress = ipAddress}

\* C5: there is at most one feedback record per (queryId, address) pair in
\* every reachable state, concurrent submissions included.
C5_OneRecordPerPair ==
  \A q \in QueryIds, ip \in Ips :
    /\ Cardinality(RecordsOf(q, ip)) <= 1
    /\ \A row \in RecordsOf(q, ip) : CopiesIn(row, feedback) = 1

\* C6: a feedback request for a (query, address) pair that has a record
\* already goes no further than its duplicate check: it is answered 409, and
\* the step that answers 409 creates no record and changes no entry; a request
\* for a pair without a record proceeds, and its create step adds its record.
C6_DuplicateRejected ==
  [][\A p \in Slots :
       /\ (req[p] = Idle /\ req'[p].op = "feedback") =>
            RecordsOf(req'[p].queryId, req'[p].ipAddress) = {}
       /\ response' = FeedbackResponse(409) => UNCHANGED <<feedback, library, req>>
       /\ (FeedbackCreate(p) /\ response' # FeedbackResponse(500)) =>
            CopiesIn(FeedbackRow(req[p]), feedback') = CopiesIn(FeedbackRow(req[p]), feedback) + 1]_vars

\* an address whose feedback on the first query was recorded and applied to
\* an entry has submitted again and got the conflict answer
C6_Witness ==
  /\ response = FeedbackResponse(409)
  /\ \E ip \in Ips : RecordsOf(1, ip) # {}
  /\ \A p \in Slots : req[p] = Idle
  /\ \E e \in Ids : applied[e].up + applied[e].down > (IF e = 1 THEN InitialVotes ELSE 0)

\* the stored confidence, in units of 1/ConfScale
StoredConfidence(e) == library[e].confidence_score * (ConfScale \div 100)

WilsonOf(e) == calculateConfidence(library[e].thumbs_up_count, library[e].thumbs_down_count)

\* C7 (as amended): every entry's stored confidence is calculateConfidence of
\* the counters stored with it, rounded to the two decimals the column
\* confidence_score DECIMAL(3,2) keeps.
C7_ConfidenceRounded ==
  \A e \in Ids :
    /\ 2 * (WilsonOf(e) - StoredConfidence(e)) <= ConfScale \div 100
    /\ 2 * (StoredConfidence(e) - WilsonOf(e)) <= ConfScale \div 100

\* C7 (as claimed): every entry's stored confidence equals calculateConfidence
\* of the counters stored with it.
C7_ConfidenceExact ==
  \A e \in Ids : StoredConfidence(e) = WilsonOf(e)

\* a vote has been applied to an entry whose stored confidence is not the
\* score of its counters but the score rounded
C7_Witness ==
  \E e \in Ids :
    /\ applied[e].up + applied[e].down > (IF e = 1 THEN InitialVotes ELSE 0)
    /\ StoredConfidence(e) # WilsonOf(e)

\* the step of slot p that runs the update of updateAnswerConfidence
Writes(p) == req[p].op = "feedback" /\ req[p].pc = "write" /\ req'[p] = Idle

C9_InactiveNeverReturned ==
  [][\A e \in Ids :
       ~library[e].is_active =>
         /\ ~library'[e].is_active
         /\ \A p \in Slots : Selects(p) => req'[p].match.id # e]_vars

\* an entry is inactive and a lookup has just missed
C9_Witness ==
  /\ response = LookupMiss
  /\ \E e \in Ids : ~library[e].is_active

\* C10: no step removes an entry or changes the query text or the answer
\* text of one: the library only grows, and the row of every id keeps both.
C10_EntriesKept ==
  [][/\ Len(library') >= Len(library)
     /\ \A e \in Ids :
          /\ library'[e].query_text = library[e].query_text
          /\ library'[e].answer_text = library[e].answer_text]_vars

\* a second entry has been saved, an entry has been hit and voted on, one has
\* been deactivated, and the statistics have just been read
C10_Witness ==
  /\ Len(library) = MaxEntries
  /\ response.op = "stats"
  /\ \E e \in Ids : applied[e].hits > 0
  /\ \E e \in Ids : ~library[e].is_active

\* C11: every call of saveToAnswerLibrary adds exactly one new entry, with
\* confidence 1.0, use_count 1, active and without votes, whatever the library
\* already holds, and leaves every existing entry as it was.
C11_SaveAlwaysAddsOne ==
  [][(response'.op = "save" /\ response' # response) =>
       /\ Len(library') = Len(library) + 1
       /\ SubSeq(library', 1, Len(library)) = library
       /\ LET new == library'[Len(library')]
          IN  /\ new.confidence_score = InitialConfidence
              /\ new.use_count = 1
              /\ new.is_active
              /\ new.thumbs_up_count = 0
              /\ new.thumbs_down_count = 0]_vars

(***************************************************************************)
(* Properties of the query pipeline, under PipelineSpec.                   *)
(***************************************************************************)
\* the fragments of the content events of a response, put together
RECURSIVE ContentOf(_)
ContentOf(events) ==
  IF events = <<>> THEN ""
  ELSE IF Head(events).type = "content" THEN Head(events).content \o ContentOf(Tail(events))
  ELSE ContentOf(Tail(events))

AskHit == ask.match # NoMatch
StreamHit == stream.match # NoMatch

Rank(backend) == CHOOSE i \in DOMAIN Backends : Backends[i] = backend

\* C13: within a call of generateLLMResponse the backends are called in the
\* order gateway, Ollama, OpenAI, each at most once; a backend is called only
\* when every backend before it has failed or is not configured or not
\* available; and the failure of the gateway or of Ollama is followed by the
\* next step of the chain, neither by a second call of the same backend nor
\* by the failure of the request.
C13_BackendsInOrder ==
  /\ [](\A i, j \in DOMAIN ask.attempts :
          i < j => Rank(ask.attempts[i]) < Rank(ask.attempts[j]))
  /\ [][\A b \in DOMAIN Untried :
         /\ ask'.attempts = Append(ask.attempts, b) =>
              \A e \in DOMAIN Untried :
                Rank(e) < Rank(b) => ask.status[e] \in {"failed", "unavailable"}
         /\ (b # "openai" /\ ask.status[b] = "pending" /\ ask'.status[b] = "failed") =>
              /\ ask'.pc \in {"probe", "openai"}
              /\ ask'.attempts = ask.attempts]_vars

\* the gateway failed, Ollama failed, OpenAI answered
C13_Witness ==
  /\ ask.attempts = Backends
  /\ ask.status = [Untried EXCEPT !["gateway"] = "failed", !["ollama"] = "failed",
                                  !["openai"] = "answered"]
  /\ ask.pc = "done"
  /\ ask.result.status = 200

\* the generation step of the call has ended without an answer
AllFailed(a) ==
  /\ a.searches = 1
  /\ \A b \in DOMAIN Untried : a.status[b] \in {"failed", "unavailable"}

GenerationStages ==
  {"kb", "gateway", "probe", "ollama", "openai"} \cup {Pending(call) : call \in Calls}

\* C14: when every backend has failed or is unavailable, the blocking call
\* is answered with an error, and neither its generation step nor the step
\* that fails it changes the library, the ask_queries table or the history.
C14_AllBackendsFail ==
  /\ [](AllFailed(ask) => (ask.pc = "done" /\ ask.result = RequestFailed))
  /\ [][(ask.pc \in GenerationStages \/ AllFailed(ask')) =>
         (library' = library /\ history' = history /\ askQueries' = askQueries)]_vars

\* after an answered request, a request whose three backends all failed
C14_Witness ==
  /\ AllFailed(ask)
  /\ ask.attempts = Backends
  /\ ask.result = RequestFailed
  /\ Len(history[OneSession]) = 1

\* a text some backend has generated for some query
BackendTexts == {BackendContent(b, q) : b \in DOMAIN Untried, q \in Queries}

\* C15: the answer the generation step returns, the answer a request is
\* answered with and the answer text of every library entry are texts that a
\* backend generated: never a placeholder, never the empty text.
C15_AnswersFromBackend ==
  /\ ask.llm # NoLlm => ask.llm.answer \in BackendTexts
  /\ (ask.pc = "done" /\ ask.result.status = 200) => ask.result.answer \in BackendTexts
  /\ \A e \in Ids : library[e].answer_text \in BackendTexts

\* C16: a call of a generation backend that is in flight can always be ended
\* by its own timeout, whether or not the backend ever replies: the step that
\* treats the silent backend as failed is enabled while the call is pending.
C16_EveryCallTimesOut ==
  \A backend \in DOMAIN Untried :
    ask.pc = Pending(backend) => ENABLED AskTimeout(backend)

Terminal(event) == event.type \in {"done", "error"}

\* C17: the events of a streaming response are one metadata event, then
\* content events, then one terminal event, done or error, with nothing
\* after it; and a channel that the server has closed has got its terminal
\* event.
C17_EventOrder ==
  LET ev == stream.events
  IN  /\ \A i \in DOMAIN ev :
           /\ ev[i].type = "metadata" <=> i = 1
           /\ Terminal(ev[i]) => i = Len(ev)
      /\ stream.channel = "closed" => (ev # <<>> /\ Terminal(ev[Len(ev)]))

\* C18: a response that failed after its channel was opened, and whose
\* channel the server has closed, ends with an error event.
C18_FailureEmitsError ==
  (stream.failed /\ stream.channel = "closed") =>
    stream.events[Len(stream.events)].type = "error"

StreamInFlight == stream.pc \notin {"idle", "end"}

C20_SideEffectsNeverFail ==
  /\ []((ask.pc = "done" /\ (AskHit \/ ask.llm # NoLlm)) => ask.result.status = 200)
  /\ [][(stream.pc = "done" /\ stream.channel = "open" /\ stream'.pc = "end") =>
         stream'.events[Len(stream'.events)] = Done]_vars

\* C21: a request whose query field is missing or is not a string is
\* answered 400 and nothing is done for it: no embedding is requested, the
\* library is not searched, no query is logged.
C21_InvalidQueryRejected ==
  /\ (ask.pc = "done" /\ ask.body.type # "string") =>
       /\ ask.result.status = 400
       /\ ask.embeddings = 0
       /\ ask.searches = 0
       /\ ask.queryId = NoId
  /\ (stream.pc = "end" /\ stream.body.type # "string") =>
       /\ stream.http = 400
       /\ stream.embeddings = 0
       /\ stream.searches = 0

\* C22: normalizeEmbedding(v, D) returns an array of length D: the first D
\* components of a longer v, v followed by zeros for a shorter one, v itself
\* for one of length D; and the array it was given holds afterwards what it
\* held before.
C22_NormalizeEmbedding ==
  (fn.op = "normalizeEmbedding" /\ fn.pc = "returned") =>
    LET v == fn.argument
        D == fn.targetDims
        r == fn.result
    IN  /\ Len(r) = D
        /\ Len(v) > D => r = SubSeq(v, 1, D)
        /\ Len(v) < D => /\ \A i \in 1..Len(v) : r[i] = v[i]
                         /\ \A i \in (Len(v) + 1)..D : r[i] = 0
        /\ Len(v) = D => r = v
        /\ fn.embedding = v

\* a vector of two components has been padded to three
C22_Witness ==
  /\ fn.op = "normalizeEmbedding"
  /\ fn.pc = "returned"
  /\ fn.argument = <<3, 7>>
  /\ fn.targetDims = 3
  /\ fn.result = <<3, 7, 0>>

\* the call of calculateConfidence under study has returned
ConfidenceReturned == fn.op = "calculateConfidence" /\ fn.pc = "returned"

\* the result lies between lo tenths and hi tenths when the counters are
\* up and down
InTenths(up, down, lo, hi) ==
  (fn.thumbsUp = up /\ fn.thumbsDown = down) =>
    AtLeastRatio(fn.result, lo, 10) /\ AtMostRatio(fn.result, hi, 10)

\* C23: calculateConfidence is 1.0 without votes, lies in [0, 1] for all
\* counters, and lies in the stated range for each of the stated counters.
C23_ConfidenceRanges ==
  ConfidenceReturned =>
    /\ fn.thumbsUp + fn.thumbsDown = 0 => fn.result = DoubleOf(1)
    /\ AtLeastRatio(fn.result, 0, 1)
    /\ AtMostRatio(fn.result, 1, 1)
    /\ InTenths(10, 0, 7, 10)
    /\ InTenths(0, 10, 0, 1)
    /\ InTenths(95, 5, 8, 10)
    /\ InTenths(100, 0, 9, 10)
    /\ InTenths(5, 5, 2, 8)
    /\ InTenths(1, 9, 0, 3)
    /\ InTenths(0, 1, 0, 5)

\* 95 votes up and 5 down give 0.888...
C23_Witness ==
  /\ ConfidenceReturned
  /\ fn.thumbsUp = 95
  /\ fn.thumbsDown = 5
  /\ AtLeastRatio(fn.result, 888, 1000)
  /\ AtMostRatio(fn.result, 889, 1000)

\* C24: one more negative vote never gives a higher confidence.
C24_MoreDownNotHigher ==
  (/\ ConfidenceReturned
   /\ fn.before.thumbsUp = fn.thumbsUp
   /\ fn.before.thumbsDown + 1 = fn.thumbsDown) =>
    DoubleLeq(fn.result, fn.before.result)

\* C25: after one thumbs-down on an entry without votes the confidence is
\* more than 0, the ratio of positive votes.
C25_OneDownAboveRatio ==
  (ConfidenceReturned /\ fn.thumbsUp = 0 /\ fn.thumbsDown = 1) =>
    ~DoubleLeq(fn.result, DoubleZero)

\* C26: one more positive vote never gives a lower confidence, the first
\* vote of an entry included.
C26_MoreUpNotLower ==
  (/\ ConfidenceReturned
   /\ fn.before.thumbsUp + 1 = fn.thumbsUp
   /\ fn.before.thumbsDown = fn.thumbsDown) =>
    DoubleLeq(fn.before.result, fn.result)

ContentHashes(rows) == {rows[n].content_hash : n \in 1..Len(rows)}

OnePerContentHash(rows) ==
  \A m, n \in 1..Len(rows) : rows[m].content_hash = rows[n].content_hash => m = n

\* C28: whatever the runs of the ingestion script do, one after the other or
\* at the same time, and with the same content twice in a batch, the table
\* holds at most one chunk per content hash and a step never changes or
\* removes a chunk that is there: an INSERT that meets its content hash in
\* the table does nothing.
C28_InsertExistingHashNoOp ==
  [][/\ OnePerContentHash(chunks')
     /\ Len(chunks') >= Len(chunks)
     /\ SubSeq(chunks', 1, Len(chunks)) = chunks
     /\ (ContentHashes(chunks') = ContentHashes(chunks) => chunks' = chunks)]_vars

\* both runs went through every card, one of them inserting the first card
\* and then its double of the same batch, and the other one at least one
\* card the table already held
C28_Witness ==
  /\ \A r \in RunIds : runs[r].pc = "done" /\ runs[r].created > 0
  /\ \E r \in RunIds : runs[r].created = NumCards
  /\ Len(chunks) = NumCards - 1
  /\ OnePerContentHash(chunks)

SearchReturns ==
  /\ fn' # fn
  /\ fn'.op = "searchKnowledgeBase"
  /\ fn'.pc = "returned"

Supplied(v) == v # Undefined

\* C29 (as claimed): the blocking route searches the knowledge base with the
\* topK and the similarityThreshold of the request body, and with 5 and 0.3
\* only where the body has not the field.
C29_CallerSuppliedSearchOptions ==
  ask.searches > 0 =>
    /\ ask.kb.topK =
         IF Supplied(ask.options.topK) THEN ask.options.topK ELSE JsonNumber("5")
    /\ ask.kb.threshold =
         IF Supplied(ask.options.similarityThreshold)
           THEN ask.options.similarityThreshold ELSE JsonNumber("0.3")

HistoryReturns ==
  /\ fn' # fn
  /\ fn'.op = "getConversationHistory"

\* C30: after any calls of appendExchange the history of the session holds
\* at most 6 messages, and they are the most recent messages appended, in
\* the order they were appended in, a user message followed by the
\* assistant's, by turns.
C30_HistoryMostRecent ==
  [][HistoryReturns =>
       LET result == fn'.result
           kept == Len(result) \div 2
       IN  /\ Len(result) <= 2 * MaxExchanges
           /\ Len(result) = IF Len(said) < MaxExchanges
                               THEN 2 * Len(said) ELSE 2 * MaxExchanges
           /\ \A i \in 1..Len(result) :
                LET exchange == said[Len(said) - kept + (i + 1) \div 2]
                IN  IF i % 2 = 1
                      THEN result[i] = [role |-> "user", content |-> exchange.query]
                      ELSE result[i] = [role |-> "assistant", content |-> exchange.answer]]_vars

\* the history read after five exchanges has six messages, and the oldest
\* exchange, which it has dropped, is none of those it holds
C30_Witness ==
  /\ fn.op = "getConversationHistory"
  /\ Len(fn.result) = 2 * MaxExchanges
  /\ Len(said) = MaxExchanges + 2
  /\ fn.result = getConversationHistory(history[OneSession])
  /\ \A i \in 1..Len(history[OneSession]) : history[OneSession][i] # said[1]

(***************************************************************************)
(* Further properties of the answer library, under Spec.                   *)
(***************************************************************************)
\* the step of slot p that runs the UPDATE of a lookup
LookupUpdates(p) == req[p].op = "lookup" /\ req'[p] = Idle

Used(row) == [row EXCEPT !.use_count = 0, !.last_used_at = Null]

\* C40: the SELECT of a lookup changes no entry, hit or miss, and its UPDATE
\* changes the use_count and the last_used_at of the matched entry and
\* nothing else: no answer text, sources, confidence, vote counter or active
\* flag, and no other entry.
C40_LookupFrame ==
  [][\A p \in Slots :
       /\ Selects(p) => library' = library /\ feedback' = feedback
       /\ (response' = LookupMiss /\ response' # response) =>
            library' = library /\ feedback' = feedback /\ req' = req
       /\ LookupUpdates(p) =>
            /\ Len(library') = Len(library)
            /\ feedback' = feedback
            /\ \A e \in Ids :
                 IF e = req[p].match.id
                   THEN /\ Used(library'[e]) = Used(library[e])
                        /\ library'[e].use_count # library[e].use_count
                   ELSE library'[e] = library[e]]_vars

\* a lookup has hit an entry that was deactivated while the lookup was in
\* flight, beside a second entry
C40_Witness ==
  /\ response.op = "lookup"
  /\ response.hit
  /\ ~library[response.result.id].is_active
  /\ library[response.result.id].use_count > InitialUseCount
  /\ Len(library) = MaxEntries

\* C35 (as claimed): while an entry is inactive no step changes its use_count
\* or its last_used_at, whatever lookups and feedback requests are in flight.
C35_InactiveNotUsed ==
  [][\A e \in Ids :
       ~library[e].is_active =>
         /\ library'[e].use_count = library[e].use_count
         /\ library'[e].last_used_at = library[e].last_used_at]_vars

\* C36 (as claimed): the useCount a hit reports is the use_count the entry
\* holds right after the UPDATE of that hit, however the hits on the entry
\* interleave.
C36_ReportedUseCount ==
  [][\A p \in Slots :
       LookupUpdates(p) =>
         response'.result.useCount = library'[req[p].match.id].use_count]_vars

\* the number of feedback records that name entry e
RecordsNaming(e) ==
  LET rows == {row \in BagToSet(feedback) : row.answerLibraryId = e}
  IN  BagCardinality([row \in rows |-> CopiesIn(row, feedback)])

FeedbackInFlight == \E p \in Slots : req[p].op = "feedback"

\* C37 (as claimed): the votes counted on an entry are the accepted feedback
\* records that name it, each counted once; stated here for the states in
\* which no feedback request is in flight, where the claim allows no
\* difference on any reading.
C37_VotesAreRecords ==
  ~FeedbackInFlight =>
    \A e \in Ids :
      library[e].thumbs_up_count + library[e].thumbs_down_count = RecordsNaming(e)

\* C39 (as claimed): an entry that has got thumbs_up votes and no thumbs_down
\* vote is active and its stored confidence is at least the minimum of the
\* lookup, 0.5.
C39_AllPositiveEligible ==
  \A e \in Ids :
    (/\ library[e].thumbs_up_count >= 1
     /\ library[e].thumbs_down_count = 0
     /\ applied[e].down = 0)
    => /\ library[e].is_active
       /\ library[e].confidence_score >= DEFAULT_minConfidence

HitStages == <<"session", "embedding", "library", "log", "history">>
MissStages ==
  <<"session", "embedding", "library", "search", "generate", "log", "save", "history">>

IsPrefix(a, b) == Len(a) <= Len(b) /\ a = SubSeq(b, 1, Len(a))

\* the step of the blocking request that adds an entry to the library
AskSaves == ask.pc = "save" /\ Len(library') > Len(library)

\* C32: the stages of a blocking request come in the order session lookup,
\* embedding, library lookup and, on a miss, knowledge search, generation,
\* query log, library save, history append; the library gets an entry only
\* when the generation has returned an answer, and the entry's source query
\* id is the id of the ask_queries row the same request has written.
C32_StagesInOrder ==
  /\ [](IF AskHit THEN IsPrefix(ask.stages, HitStages)
                  ELSE IsPrefix(ask.stages, MissStages))
  /\ [][AskSaves =>
         /\ ask.stages = SubSeq(MissStages, 1, 6)
         /\ ask.llm # NoLlm
         /\ ask.queryId = askQueries
         /\ library'[Len(library')].source_query_id = QueryRecordId(ask.queryId)
         /\ library'[Len(library')].answer_text = ask.llm.answer]_vars

\* the second request of a run has missed, has gone through every stage and
\* has been answered, and the entry saved for it names its ask_queries row
C32_Witness ==
  /\ ask.pc = "done"
  /\ ask.stages = MissStages
  /\ ask.queryId = 2
  /\ ask.libraryAnswerId # NoId
  /\ library[ask.libraryAnswerId].source_query_id = QueryRecordId(2)

\* the least number of groups of size n that hold w words
GroupsOf(w, n) == (w + n - 1) \div n

\* C33 (as claimed): a replay of a stored answer that ran to its end is the
\* metadata event, then one content event for every three words of the
\* answer, then done, and the fragments put together are the stored answer.
C33_ReplayReproducesAnswer ==
  (StreamHit /\ stream.pc = "end" /\ stream.channel = "closed") =>
    LET text == library[stream.match.id].answer_text
        n    == Len(stream.events)
    IN  /\ n = GroupsOf(Len(Words(text)), WordsPerChunk) + 2
        /\ stream.events[1].type = "metadata"
        /\ \A i \in 2..(n - 1) : stream.events[i].type = "content"
        /\ stream.events[n] = Done
        /\ ContentOf(stream.events) = text

(***************************************************************************)
(* Properties of the session store, under ExpirySpec.                      *)
(***************************************************************************)
\* the expiry of the stored session of the token has passed
HasExpired(sessionToken) ==
  /\ sessions[sessionToken].status = "stored"
  /\ sessions[sessionToken].expiresAt < now

\* C31: once the expiry of a session has passed, a read of its history
\* returns no message and getOrCreateSession with its token returns another
\* token, of a new session without messages that expires SessionTtl from
\* now; the session stays expired until it is deleted, and no later session
\* gets its token.
C31_ExpiredSessionGone ==
  [][\A sessionToken \in SessionTokens :
       HasExpired(sessionToken) =>
         /\ getConversationHistoryReturns(sessionToken) => fn'.result = <<>>
         /\ getOrCreateSession(sessionToken) =>
              /\ fn'.result.sessionToken # sessionToken
              /\ fn'.result.expiresAt = now + SessionTtl
              /\ sessions'[fn'.result.sessionToken] = [status |-> "stored",
                                                       expiresAt |-> now + SessionTtl]
              /\ history'[fn'.result.sessionToken] = <<>>
         /\ sessions'[sessionToken].status = "stored" =>
              sessions'[sessionToken].expiresAt < now'
         /\ sessions'[sessionToken].status # "none"]_vars

\* a session with messages has expired and getOrCreateSession, called with
\* its token, has returned another token
C31_Witness ==
  /\ fn.op = "getOrCreateSession"
  /\ fn.sessionToken \in SessionTokens
  /\ HasExpired(fn.sessionToken)
  /\ history[fn.sessionToken] # <<>>
  /\ fn.result.sessionToken # fn.sessionToken
  /\ fn.result.expiresAt = now + SessionTtl
  /\ history[fn.result.sessionToken] = <<>>

(***************************************************************************)
(* Properties of requests of several sessions, under IsolationSpec.        *)
(***************************************************************************)
\* the prompt that produced the stored answer of a library entry
PromptOfEntry(row) == prompts[row.source_query_id.id]

\* C38 (as claimed): a stored answer that a request is answered with was
\* generated from a prompt without conversation history or with the
\* history of the request's own session.
C38_AnswerOfOwnSession ==
  (ask.pc = "done" /\ ask.result.status = 200 /\ ask.result.fromLibrary) =>
    LET prompt == PromptOfEntry(library[ask.match.id])
    IN  prompt.history # <<>> => prompt.session = ask.session

====
